---- MODULE Spec2Model ----
(* A state-machine model of rescuetime-mcp: the API client                *)
(* (src/src/rescuetime_mcp/client.py) and the FastMCP tool facade          *)
(* (src/src/rescuetime_mcp/server.py).                                     *)
(*                                                                         *)
(* Python coroutines run atomically between awaits; the only awaits that   *)
(* suspend are the network round trip inside _make_request and the close   *)
(* of the connection handle inside cleanup.  An invocation is therefore    *)
(* modelled by one step up to the round trip and one step from the         *)
(* response to its result.                                                 *)
EXTENDS Integers, Sequences, FiniteSets, TLC

VARIABLES
    server,             \* create_server's outcome: the FastMCP object and the api_key it closed over
    client_instance,    \* create_server's nonlocal client_instance: None or a handle
    handles,            \* every RescueTimeClient constructed so far, in order
    inv                 \* per caller: the invocation in flight (a coroutine's frame)

vars == <<server, client_instance, handles, inv>>

-----------------------------------------------------------------------------
(* Bounds of the model.                                                    *)

NumCallers == 2
MaxHandles == 2
MaxCloses == 2
MaxStrLen == 3
MaxDuration == 31
MaxLimit == 3
MaxAlertId == 2
MaxRows == 2

Callers == 1..NumCallers

-----------------------------------------------------------------------------
(* Python values.                                                          *)

\* Optional[T]: None, or a one-element tuple holding the value.
None == << >>
Some(v) == <<v>>
Get(o) == o[1]

\* dict: a function from its keys; list: a sequence.  A result that may be
\* either carries its type, as isinstance() sees it.
EmptyDict == << >>
JDict(f) == [kind |-> "dict", fields |-> f]
JList(s) == [kind |-> "list", items |-> s]
IsList(v) == v.kind = "list"
IsDict(v) == v.kind = "dict"
HasKey(v, k) == IsDict(v) /\ k \in DOMAIN v.fields
\* A number inside a list, where the code may meet it in place of an object.
JNum(n) == [kind |-> "num", v |-> n]
\* d.get(k, default)
DictGet(d, k, default) == IF k \in DOMAIN d.fields THEN d.fields[k] ELSE default
\* bool(v) of a dict or a list: non-empty.
Truthy(v) == IF IsList(v) THEN Len(v.items) > 0 ELSE DOMAIN v.fields # {}

\* str(n) of an integer.
DigitChar(d) ==
    CASE d = 0 -> "0" [] d = 1 -> "1" [] d = 2 -> "2" [] d = 3 -> "3"
      [] d = 4 -> "4" [] d = 5 -> "5" [] d = 6 -> "6" [] d = 7 -> "7"
      [] d = 8 -> "8" [] d = 9 -> "9"

RECURSIVE NatToStr(_)
NatToStr(n) == IF n < 10 THEN DigitChar(n)
               ELSE NatToStr(n \div 10) \o DigitChar(n % 10)

IntToStr(n) == IF n < 0 THEN "-" \o NatToStr(0 - n) ELSE NatToStr(n)

\* The outcome of a call: a returned value or a raised exception.
NoResult == [kind |-> "none"]
Ret(v) == [kind |-> "return", value |-> v]
Raise(e) == [kind |-> "raise", exc |-> e]
Returned(r) == r.kind = "return"
Raised(r) == r.kind = "raise"

\* An exception object: its class, str(e), and the two attributes
\* RescueTimeAPIError adds (None on every other class).  A message is the
\* sequence of the pieces its f-string joins; Text(msg) is the string.
Exc(type, msg) ==
    [type |-> type, msg |-> msg, status_code |-> None, response_data |-> None]

\* RescueTimeAPIError(message, status_code=None, response_data=None)
RescueTimeAPIError(message, status_code, response_data) ==
    [type |-> "RescueTimeAPIError", msg |-> message,
     status_code |-> status_code, response_data |-> response_data]

RECURSIVE Text(_)
Text(msg) == IF msg = << >> THEN "" ELSE Head(msg) \o Text(Tail(msg))

\* The exception classes that `except ValueError` catches.
IsValueError(e) == e.type \in {"ValueError", "JSONDecodeError", "ValidationError"}

-----------------------------------------------------------------------------
(* The remote service, as httpx reports it.                                *)

BASE_URL == "https://www.rescuetime.com/anapi"

Statuses == {200, 204, 301, 401, 404, 500}

\* Variant of Is2xx: only 4xx and 5xx count as failures (httpx's is_error),
\* so a redirect that is not followed is read as a success.  C2 fails under it.
IsNotError(status) == status < 400

\* Response.raise_for_status() passes exactly the 2xx statuses.
Is2xx(status) == status >= 200 /\ status < 300

\* The declared content type: a header value, or None when the header is missing.
ContentTypes ==
    {Some("application/json"), Some("Application/JSON; charset=UTF-8"),
     Some("text/plain"), Some("TEXT/HTML"), None}

\* str.lower() on the header values above.
Lower(s) ==
    CASE s = "Application/JSON; charset=UTF-8" -> "application/json; charset=utf-8"
      [] s = "TEXT/HTML" -> "text/html"
      [] OTHER -> s

\* "application/json" in s, on the lowered header values above.
ContainsApplicationJson(s) ==
    s \in {"application/json", "application/json; charset=utf-8"}

\* A response body: its raw text and what Response.json() makes of it
\* (None: json.loads raises JSONDecodeError).
Body(text, json) == [text |-> text, json |-> json]

\* An analytic row: [rank, seconds, people, activity, category, productivity].
Row(rank, seconds, activity, productivity) ==
    <<rank, seconds, 1, activity, "General", productivity>>

Bodies ==
    { Body("[]", Some(JList(<< >>))),
      Body("[{\"id\": 1}]", Some(JList(<< JDict("id" :> 1) >>))),
      Body("[1]", Some(JList(<< JNum(1) >>))),
      Body("[{\"date\": \"2025-10-11\", \"productivity_pulse\": 70}, {\"id\": 2}]",
           Some(JList(<< JDict(("date" :> "2025-10-11") @@ ("productivity_pulse" :> 70)),
                         JDict("id" :> 2) >>))),
      Body("{}", Some(JDict(EmptyDict))),
      Body("{\"status\": \"ok\"}", Some(JDict("status" :> "ok"))),
      Body("{\"response\": \"done\"}", Some(JDict("response" :> "done"))),
      Body("{\"rows\": []}", Some(JDict("rows" :> << >>))),
      Body("{\"rows\": [[1, 3600, 1, \"ide\", \"General\", 2], [2, 1800, 1, \"news\", \"General\", -1], [3, 3600, 1, \"video\", \"General\", -2]]}",
           Some(JDict("rows" :> << Row(1, 3600, "ide", 2), Row(2, 1800, "news", -1),
                                   Row(3, 3600, "video", -2) >>))),
      Body("{\"rows\": [[1, 60]]}", Some(JDict("rows" :> << <<1, 60>> >>))),
      Body("OK", None),
      Body("", None) }

\* A round trip ends in a response, or in an httpx.RequestError
\* (ConnectError, TimeoutException, ...) carrying a message.
Response(status, content_type, body) ==
    [kind |-> "response", status |-> status, content_type |-> content_type,
     text |-> body.text, json |-> body.json]
RequestError(msg) == [kind |-> "transport", msg |-> msg]

TransportFailures ==
    {RequestError("Connection refused"), RequestError("Name or service not known"),
     RequestError("Request timed out")}

Outcomes ==
    {Response(s, ct, b) : s \in Statuses, ct \in ContentTypes, b \in Bodies}
        \cup TransportFailures

-----------------------------------------------------------------------------
(* RescueTimeClient._make_request                                          *)

\* lines 204-207: the parameter map after the two fixed entries are set.
RequestParams(api_key, params) ==
    ("format" :> "json") @@ ("key" :> api_key)
        @@ (IF params = None THEN EmptyDict ELSE Get(params))

\* lines 201, 213-222: the request handed to httpx (None: the method is
\* neither GET nor POST and ValueError is raised instead).
OutgoingRequest(api_key, endpoint, method, params, data) ==
    LET p == RequestParams(api_key, params)
        url == BASE_URL \o "/" \o endpoint
    IN  IF method = "GET"
        THEN Some([method |-> "GET", url |-> url, query |-> Some(p), form |-> None])
        ELSE IF method = "POST"
        THEN Some([method |-> "POST", url |-> url, query |-> None,
                   form |-> Some(IF data # None /\ DOMAIN Get(data) # {}
                                 THEN Get(data) @@ p ELSE p)])
        ELSE None

\* Variant of RequestErrorResult: no `except httpx.RequestError`, the httpx
\* exception leaves _make_request as it is.  C3 fails under it.
RequestErrorUncaught(o) == Raise(Exc("RequestError", <<o.msg>>))

\* lines 244-247: a transport failure is re-raised as the client's own error.
RequestErrorResult(o) ==
    Raise(RescueTimeAPIError(<<"Request error: ", o.msg>>, None, None))

\* lines 224-247: what _make_request makes of the round trip's outcome.
MakeRequestResult(o) ==
    IF o.kind = "transport"
    THEN RequestErrorResult(o)
    ELSE IF ~Is2xx(o.status)
    THEN Raise(RescueTimeAPIError(
                <<"HTTP ", IntToStr(o.status), " error: ", o.text>>,
                Some(o.status), Some(JDict("response" :> o.text))))
    ELSE LET content_type ==
                 Lower(IF o.content_type = None THEN "" ELSE Get(o.content_type))
         IN  IF ContainsApplicationJson(content_type)
             THEN IF o.json = None
                  THEN Raise(Exc("JSONDecodeError", <<"Expecting value: line 1 column 1 (char 0)">>))
                  ELSE Ret(Get(o.json))
             ELSE Ret(JDict(("response" :> o.text) @@ ("content_type" :> content_type)))

-----------------------------------------------------------------------------
(* Dates: datetime.date values and strftime("%Y-%m-%d").                   *)

Date(y, m, d) == [year |-> y, month |-> m, day |-> d]

IsLeap(y) == (y % 4 = 0 /\ y % 100 # 0) \/ y % 400 = 0

DaysInMonth(y, m) ==
    IF m = 2 THEN (IF IsLeap(y) THEN 29 ELSE 28)
    ELSE IF m \in {4, 6, 9, 11} THEN 30 ELSE 31

\* Variant of DayBefore: no day is taken off.  C21 fails under it.
SameDay(d) == d

\* d - timedelta(days=1)
DayBefore(d) ==
    IF d.day > 1 THEN Date(d.year, d.month, d.day - 1)
    ELSE IF d.month > 1 THEN Date(d.year, d.month - 1, DaysInMonth(d.year, d.month - 1))
    ELSE Date(d.year - 1, 12, 31)

\* %m, %d: two digits, zero padded.
Pad2(n) == IF n < 10 THEN "0" \o NatToStr(n) ELSE NatToStr(n)

\* Four digits, zero padded (isoformat's year).
Pad4(n) == IF n < 10 THEN "000" \o NatToStr(n)
           ELSE IF n < 100 THEN "00" \o NatToStr(n)
           ELSE IF n < 1000 THEN "0" \o NatToStr(n)
           ELSE NatToStr(n)

\* date.strftime("%Y-%m-%d").  CPython hands the format to the C library's
\* strftime, and glibc writes %Y as the year's decimal digits with no
\* padding: date(999, 1, 2).strftime("%Y-%m-%d") is "999-01-02".
Strftime(d) == NatToStr(d.year) \o "-" \o Pad2(d.month) \o "-" \o Pad2(d.day)

\* datetime.now(): the days the clock may show when a tool reads it.
Clock == {Date(2024, 3, 1), Date(2025, 1, 1), Date(2025, 10, 12)}

\* datetime.isoformat(), the time of day left abstract.
Isoformat(now) ==
    Pad4(now.year) \o "-" \o Pad2(now.month) \o "-" \o Pad2(now.day) \o "T12:00:00"

\* A Union[str, date] field value: a string, or a date object.
StrValue(s) == [t |-> "str", str |-> s]
DateValue(d) == [t |-> "date", date |-> d]

\* The field validators validate_dates / validate_date (mode="before"):
\* a date becomes its strftime string, anything else stays.
validate_dates(v) ==
    IF v = None THEN None
    ELSE IF Get(v).t = "date" THEN Some(Strftime(Get(v).date)) ELSE Some(Get(v).str)

-----------------------------------------------------------------------------
(* Request models (pydantic BaseModel): a function from field names to     *)
(* Optional values.                                                        *)

\* model_dump(exclude_none=True): the fields that are set, by name.
model_dump(m) == [k \in {f \in DOMAIN m : m[f] # None} |-> Get(m[k])]

AnalyticDataRequest(perspective, resolution_time, restrict_begin, restrict_end, restrict_kind, restrict_project, restrict_thing) ==
    [perspective |-> Some(perspective),
     resolution_time |-> Some(resolution_time),
     restrict_begin |-> validate_dates(restrict_begin),
     restrict_end |-> validate_dates(restrict_end),
     restrict_kind |-> restrict_kind,
     restrict_project |-> restrict_project,
     restrict_thing |-> restrict_thing]

DailySummaryRequest(restrict_begin, restrict_end) ==
    [restrict_begin |-> validate_dates(restrict_begin),
     restrict_end |-> validate_dates(restrict_end)]

AlertsFeedRequest(op) == [op |-> Some(op)]

HighlightPost(highlight_date, description, source) ==
    [highlight_date |-> validate_dates(Some(highlight_date)),
     description |-> Some(description),
     source |-> source]

OfflineTimePost(offline_date, offline_hours, description) ==
    [offline_date |-> validate_dates(Some(offline_date)),
     offline_hours |-> Some(offline_hours),
     description |-> Some(description)]

-----------------------------------------------------------------------------
(* RescueTimeClient: one operator pair per method, the part before the     *)
(* call of _make_request and the part after it.                            *)

\* What a method does first: call _make_request(endpoint, method, params,
\* data), or return a value without any call.
Call(endpoint, method, params, data) ==
    [t |-> "request", endpoint |-> endpoint, method |-> method,
     params |-> params, data |-> data]
Immediate(v) == [t |-> "return", value |-> v]

DEFAULT_DURATION == 30

\* lines 322-328
UnsupportedResponse(alert_id) ==
    JDict([status |-> "unsupported",
           alert_id |-> alert_id,
           error |-> "Alert dismissal is not supported by the RescueTime API",
           message |-> "The RescueTime API only supports reading alerts, not dismissing them. Please use the RescueTime web interface to dismiss alerts.",
           api_limitation |-> TRUE])

\* lines 287: the alerts feed's parameters.
AlertsParams(request) ==
    IF request # None THEN model_dump(Get(request)) ELSE ("op" :> "list")

\* lines 344-352: a falsy bound (None, "") is dropped, a date is formatted.
HighlightsParams(restrict_begin, restrict_end) ==
    LET given(v) == v # None /\ (Get(v).t = "date" \/ Get(v).str # "")
        one(k, v) == IF given(v) THEN (k :> Get(validate_dates(v))) ELSE EmptyDict
    IN  one("restrict_begin", restrict_begin) @@ one("restrict_end", restrict_end)

\* The duration start_focus_session sends (lines 379-381).
SentDuration(duration) == IF duration = None THEN DEFAULT_DURATION ELSE Get(duration)

\* Variant of DismissAlertCall: the dismissal is sent to the alerts feed, as
\* tests/test_client.py test_dismiss_alert still expects.  C5 fails under it.
DismissAlertViaFeed(alert_id) ==
    Call("alerts_feed", "GET", Some([op |-> "dismiss", id |-> IntToStr(alert_id)]), None)

\* dismiss_alert, lines 307-328: no call, the canned answer.
DismissAlertCall(alert_id) == Immediate(UnsupportedResponse(alert_id))

ClientCall(m, a) ==
    CASE m = "_make_request" -> Call(a.endpoint, a.method, a.params, a.data)
      [] m = "get_analytic_data" -> Call("data", "GET", Some(model_dump(a.request)), None)
      [] m = "get_daily_summary_feed" ->
            Call("daily_summary_feed", "GET",
                 Some(IF a.request # None THEN model_dump(Get(a.request)) ELSE EmptyDict),
                 None)
      \* health_check calls get_daily_summary_feed() with no request
      [] m = "health_check" -> Call("daily_summary_feed", "GET", Some(EmptyDict), None)
      [] m = "get_alerts_feed" ->
            LET params == AlertsParams(a.request)
            IN  IF "op" \in DOMAIN params /\ params["op"] = "dismiss"
                THEN Call("alerts_feed", "POST", None, Some(params))
                ELSE Call("alerts_feed", "GET", Some(params), None)
      [] m = "dismiss_alert" -> DismissAlertCall(a.alert_id)
      [] m = "get_highlights_feed" ->
            Call("highlights_feed", "GET",
                 Some(HighlightsParams(a.restrict_begin, a.restrict_end)), None)
      [] m = "post_highlight" ->
            Call("highlights_post", "POST", None, Some(model_dump(a.highlight)))
      [] m = "start_focus_session" ->
            Call("start_focustime", "POST", None,
                 Some("duration" :> SentDuration(a.duration)))
      [] m = "end_focus_session" -> Call("end_focustime", "POST", None, None)
      [] m = "get_focus_session_status" -> Call("focustime_started_feed", "GET", None, None)
      [] m = "post_offline_time" ->
            Call("offline_time_post", "POST", None, Some(model_dump(a.offline_time)))

\* lines 293-303 and 385-395: the envelope an action endpoint's result is
\* turned into when it is a text body or empty.
Envelope(result, base, canned) ==
    IF HasKey(result, "response")
    THEN JDict(("message" :> result.fields["response"]) @@ base)
    ELSE IF Truthy(result) THEN result
    ELSE JDict(("message" :> canned) @@ base)

\* Variant of FocusStatusResult: every typed error is taken as "no session",
\* whatever its status.  C17 fails under it.
FocusStatusAnyErrorInactive(r) ==
    IF Returned(r)
    THEN IF IsList(r.value) /\ Len(r.value.items) > 0
         THEN Ret(JDict([active |-> TRUE,
                         latest_session |-> Some(r.value.items[1]),
                         total_sessions |-> Len(r.value.items)]))
         ELSE Ret(JDict([active |-> FALSE, latest_session |-> None, total_sessions |-> 0]))
    ELSE IF r.exc.type = "RescueTimeAPIError"
         THEN Ret(JDict([active |-> FALSE, latest_session |-> None,
                         message |-> "No focus session data available"]))
         ELSE r

\* lines 411-435
FocusStatusResult(r) ==
    IF Returned(r)
    THEN IF IsList(r.value) /\ Len(r.value.items) > 0
         THEN Ret(JDict([active |-> TRUE,
                         latest_session |-> Some(r.value.items[1]),
                         total_sessions |-> Len(r.value.items)]))
         ELSE Ret(JDict([active |-> FALSE, latest_session |-> None, total_sessions |-> 0]))
    ELSE IF r.exc.type = "RescueTimeAPIError" /\ r.exc.status_code = Some(404)
         THEN Ret(JDict([active |-> FALSE, latest_session |-> None,
                         message |-> "No focus session data available"]))
         ELSE r

\* Variant of HealthCheckResult: no `except Exception`, a failed call's
\* error leaves health_check.  C26 fails under it.
HealthCheckPropagates(r) == IF Returned(r) THEN Ret(TRUE) ELSE r

\* health_check, lines 455-461: True when get_daily_summary_feed() returned,
\* False when it raised any Exception.
HealthCheckResult(r) == Ret(Returned(r))

\* What a method makes of _make_request's result r (returned or raised).
ClientResult(m, a, r) ==
    CASE m = "get_alerts_feed" ->
            LET params == AlertsParams(a.request)
            IN  IF "op" \in DOMAIN params /\ params["op"] = "dismiss" /\ Returned(r)
                THEN Ret(Envelope(r.value,
                                  [status |-> "dismissed", operation |-> "dismiss"],
                                  "Alert dismissed successfully"))
                ELSE r
      [] m = "start_focus_session" ->
            IF Returned(r)
            THEN Ret(Envelope(r.value,
                              [status |-> "started", duration |-> SentDuration(a.duration)],
                              "Focus session started successfully"))
            ELSE r
      [] m = "get_focus_session_status" -> FocusStatusResult(r)
      [] m = "health_check" -> HealthCheckResult(r)
      [] OTHER -> r

-----------------------------------------------------------------------------
(* Invocations.                                                            *)

\* A connection handle: a RescueTimeClient and the httpx client it owns.
Handle(api_key) == [api_key |-> api_key, closed |-> FALSE, closes |-> 0]

\* A caller with nothing in flight.
Idle ==
    [pc |-> "idle", layer |-> "none", op |-> "none", args |-> << >>,
     m |-> "none", margs |-> << >>, handle |-> None, started |-> None,
     req |-> None, nreq |-> 0, ncalls |-> 0, outcome |-> None,
     caught |-> None, cres |-> NoResult, result |-> NoResult]

\* httpx refuses to send on a closed client.
ClosedError ==
    Exc("RuntimeError", <<"Cannot send a request, as the client has been closed.">>)

\* _make_request line 222
UnsupportedMethod(method) ==
    Exc("ValueError", <<"Unsupported HTTP method: ", method>>)

\* A client method called on a handle, up to the round trip: either the
\* request is on the wire (sent), or the method has ended with result r.
ClientBegin(handle, m, a) ==
    LET Send(c, req) ==
            IF req = None
            THEN [sent |-> FALSE,
                  r |-> ClientResult(m, a, Raise(UnsupportedMethod(c.method)))]
            ELSE IF handle.closed
            THEN [sent |-> FALSE, r |-> ClientResult(m, a, Raise(ClosedError))]
            ELSE [sent |-> TRUE, req |-> Get(req)]
        Begin(c) ==
            IF c.t = "return" THEN [sent |-> FALSE, r |-> Ret(c.value)]
            ELSE Send(c, OutgoingRequest(handle.api_key, c.endpoint, c.method,
                                         c.params, c.data))
    IN  Begin(ClientCall(m, a))

\* RescueTimeClient.__init__ (a client object a caller constructs itself)
NewClient(api_key) ==
    /\ Len(handles) < 1
    /\ handles' = Append(handles, Handle(api_key))
    /\ UNCHANGED <<server, client_instance, inv>>

\* RescueTimeClient.close
CloseClient(h) ==
    /\ h \in DOMAIN handles
    /\ handles[h].closes < MaxCloses
    /\ handles' = [handles EXCEPT ![h].closed = TRUE, ![h].closes = @ + 1]
    /\ UNCHANGED <<server, client_instance, inv>>

\* A client method m(a) called directly on handle h by caller p.
DirectCall(p, h, m, a) ==
    /\ inv[p].pc = "idle"
    /\ h \in DOMAIN handles
    /\ LET frame == [Idle EXCEPT !.layer = "client", !.op = m, !.args = a,
                                 !.m = m, !.margs = a, !.handle = Some(h),
                                 !.ncalls = 1]
           Begun(b) ==
                IF b.sent
                THEN [frame EXCEPT !.pc = "awaiting", !.req = Some(b.req), !.nreq = 1]
                ELSE [frame EXCEPT !.pc = "done", !.cres = b.r, !.result = b.r]
       IN  inv' = [inv EXCEPT ![p] = Begun(ClientBegin(handles[h], m, a))]
    /\ UNCHANGED <<server, client_instance, handles>>

-----------------------------------------------------------------------------
(* The tool facade (create_server): input validation.                      *)

\* What a tool's body does before it awaits the client: raise, or call
\* client method m with arguments a.
TRaise(e) == [t |-> "raise", exc |-> e]
TCall(m, a) == [t |-> "call", m |-> m, a |-> a]

ValueError(msg) == Exc("ValueError", msg)

\* ', '.join(items)
RECURSIVE JoinComma(_)
JoinComma(items) ==
    IF Len(items) = 0 THEN << >>
    ELSE IF Len(items) = 1 THEN <<items[1]>>
    ELSE <<items[1], ", ">> \o JoinComma(Tail(items))

SeqRange(s) == {s[i] : i \in DOMAIN s}

valid_perspectives == <<"rank", "interval">>
valid_resolutions == <<"minute", "hour", "day", "week", "month">>
valid_restrict_kinds == <<"category", "activity", "productivity", "document", "overview">>

\* An Optional[str] argument as Python's truth test sees it.
StrGiven(v) == v # None /\ Get(v) # ""

\* An Optional[str] date argument as the request models take it.
AsDateField(v) == IF v = None THEN None ELSE Some(StrValue(Get(v)))

\* get_analytic_data, lines 105-140
AnalyticDataCall(a) ==
    IF a.perspective \notin SeqRange(valid_perspectives)
    THEN TRaise(ValueError(
            <<"Invalid perspective '", a.perspective, "'. Must be one of: ">>
            \o JoinComma(valid_perspectives)
            \o <<". 'rank' shows activities ranked by time spent, 'interval' shows activities broken down by time periods.">>))
    ELSE IF a.resolution_time \notin SeqRange(valid_resolutions)
    THEN TRaise(ValueError(
            <<"Invalid resolution_time '", a.resolution_time, "'. Must be one of: ">>
            \o JoinComma(valid_resolutions) \o <<".">>))
    ELSE IF StrGiven(a.restrict_kind) /\ Get(a.restrict_kind) \notin SeqRange(valid_restrict_kinds)
    THEN TRaise(ValueError(
            <<"Invalid restrict_kind '", Get(a.restrict_kind), "'. Must be one of: '",
              "category", "', '", "activity", "', '", "productivity", "', '",
              "document", "', or '", "overview", "'.">>))
    ELSE TCall("get_analytic_data",
               [request |-> AnalyticDataRequest(
                    a.perspective, a.resolution_time,
                    AsDateField(a.restrict_begin), AsDateField(a.restrict_end),
                    IF StrGiven(a.restrict_kind) THEN a.restrict_kind ELSE None,
                    a.restrict_project, a.restrict_thing)])

\* A str argument of a tool is the sequence of its characters.
IsDigit(c) == c \in {"0", "1", "2", "3", "4", "5", "6", "7", "8", "9"}

DigitVal(c) ==
    CASE c = "0" -> 0 [] c = "1" -> 1 [] c = "2" -> 2 [] c = "3" -> 3
      [] c = "4" -> 4 [] c = "5" -> 5 [] c = "6" -> 6 [] c = "7" -> 7
      [] c = "8" -> 8 [] c = "9" -> 9

\* str.strip() of blanks.
RECURSIVE LStrip(_)
LStrip(s) == IF s # << >> /\ Head(s) = " " THEN LStrip(Tail(s)) ELSE s

RECURSIVE RStrip(_)
RStrip(s) == IF s # << >> /\ s[Len(s)] = " "
             THEN RStrip(SubSeq(s, 1, Len(s) - 1)) ELSE s

\* The digit part of a decimal literal: digits, single underscores between them.
ValidDigits(s) ==
    /\ Len(s) > 0
    /\ IsDigit(s[1]) /\ IsDigit(s[Len(s)])
    /\ \A i \in DOMAIN s : IsDigit(s[i]) \/ s[i] = "_"
    /\ \A i \in 1..(Len(s) - 1) : ~(s[i] = "_" /\ s[i + 1] = "_")

RECURSIVE DigitsValue(_, _)
DigitsValue(s, acc) ==
    IF s = << >> THEN acc
    ELSE IF Head(s) = "_" THEN DigitsValue(Tail(s), acc)
    ELSE DigitsValue(Tail(s), acc * 10 + DigitVal(Head(s)))

\* int(s) of a str: Some(value), or None where int() raises ValueError.
ParseInt(s) ==
    LET t == RStrip(LStrip(s))
        signed == t # << >> /\ Head(t) \in {"+", "-"}
        digits == IF signed THEN Tail(t) ELSE t
    IN  IF ~ValidDigits(digits) THEN None
        ELSE IF signed /\ Head(t) = "-" THEN Some(0 - DigitsValue(digits, 0))
        ELSE Some(DigitsValue(digits, 0))

\* A Union[int, str] argument.
IntArg(n) == [t |-> "int", int |-> n]
StrArg(chars) == [t |-> "str", str |-> chars]

\* Variant of StartFocusCall: the last test only rejects 0, so a negative
\* multiple of 5 is delegated.  C7 fails under it.
StartFocusCallNoSignTest(a) ==
    IF a.duration = None THEN TCall("start_focus_session", [duration |-> None])
    ELSE LET given == Get(a.duration)
             parsed == IF given.t = "str" THEN ParseInt(given.str) ELSE Some(given.int)
         IN  IF parsed = None
             THEN TRaise(ValueError(
                    <<"Duration must be a valid integer, got: ", Text(given.str)>>))
             ELSE LET duration == Get(parsed)
                  IN  IF duration # -1 /\ duration % 5 # 0
                      THEN TRaise(ValueError(
                             <<"Duration must be a multiple of 5 minutes or -1 for end of day, got: ",
                               IntToStr(duration)>>))
                      ELSE IF duration = 0
                      THEN TRaise(ValueError(
                             <<"Duration must be positive, -1 for end of day, or not specified for default (30), got: ",
                               IntToStr(duration)>>))
                      ELSE TCall("start_focus_session", [duration |-> Some(duration)])

\* start_focus_session, lines 331-346
StartFocusCall(a) ==
    IF a.duration = None THEN TCall("start_focus_session", [duration |-> None])
    ELSE LET given == Get(a.duration)
             parsed == IF given.t = "str" THEN ParseInt(given.str) ELSE Some(given.int)
         IN  IF parsed = None
             THEN TRaise(ValueError(
                    <<"Duration must be a valid integer, got: ", Text(given.str)>>))
             ELSE LET duration == Get(parsed)
                  IN  IF duration # -1 /\ duration % 5 # 0
                      THEN TRaise(ValueError(
                             <<"Duration must be a multiple of 5 minutes or -1 for end of day, got: ",
                               IntToStr(duration)>>))
                      ELSE IF duration < -1 \/ duration = 0
                      THEN TRaise(ValueError(
                             <<"Duration must be positive, -1 for end of day, or not specified for default (30), got: ",
                               IntToStr(duration)>>))
                      ELSE TCall("start_focus_session", [duration |-> Some(duration)])

\* The request the three "today" / "yesterday" tools build (lines 474-477,
\* 543-549, 618-623).
DayRequest(day) ==
    AnalyticDataRequest("rank", "hour", Some(StrValue(day)), Some(StrValue(day)),
                        None, None, None)

\* Each tool's body from `client = await get_client()` to its await of the
\* client method; `now` is what datetime.now() shows.
ToolCall(op, a, now) ==
    CASE op = "get_analytic_data" -> AnalyticDataCall(a)
      [] op = "get_daily_summary_feed" ->
            TCall("get_daily_summary_feed",
                  [request |-> IF StrGiven(a.restrict_begin) \/ StrGiven(a.restrict_end)
                               THEN Some(DailySummaryRequest(AsDateField(a.restrict_begin),
                                                             AsDateField(a.restrict_end)))
                               ELSE None])
      [] op = "get_alerts_feed" ->
            TCall("get_alerts_feed", [request |-> Some(AlertsFeedRequest(a.op))])
      [] op = "get_highlights_feed" ->
            TCall("get_highlights_feed",
                  [restrict_begin |-> AsDateField(a.restrict_begin),
                   restrict_end |-> AsDateField(a.restrict_end)])
      [] op = "post_highlight" ->
            TCall("post_highlight",
                  [highlight |-> HighlightPost(StrValue(a.highlight_date),
                                               a.description, a.source)])
      [] op = "start_focus_session" -> StartFocusCall(a)
      [] op = "end_focus_session" -> TCall("end_focus_session", << >>)
      [] op = "get_focus_session_status" -> TCall("get_focus_session_status", << >>)
      [] op = "post_offline_time" ->
            TCall("post_offline_time",
                  [offline_time |-> OfflineTimePost(StrValue(a.offline_date),
                                                    a.offline_hours, a.description)])
      [] op = "health_check" -> TCall("health_check", << >>)
      [] op = "get_latest_daily_summary" ->
            LET yesterday == Strftime(DayBefore(now))
            IN  TCall("get_daily_summary_feed",
                      [request |-> Some(DailySummaryRequest(Some(StrValue(yesterday)),
                                                            Some(StrValue(yesterday))))])
      [] op \in {"get_top_distractions", "get_productivity_score"} ->
            TCall("get_analytic_data", [request |-> DayRequest(Strftime(now))])

-----------------------------------------------------------------------------
(* The tool facade: what each tool makes of the client's result.           *)

\* round(num / den, ndigits): the float is kept as the quotient it rounds.
Rounded(num, den, ndigits) == [num |-> num, den |-> den, ndigits |-> ndigits]

\* Variant of WrapList: the filter the caller gave is not echoed.  C12 fails
\* under it.
WrapListNoEcho(v, name, echo) ==
    IF IsList(v)
    THEN Ret(JDict((name :> v.items) @@ ("count" :> Len(v.items))))
    ELSE Ret(v)

\* lines 193-201, 226-231, 265-273: a bare list is wrapped.
WrapList(v, name, echo) ==
    IF IsList(v)
    THEN Ret(JDict((name :> v.items) @@ ("count" :> Len(v.items)) @@ echo))
    ELSE Ret(v)

DateRange(a) ==
    "date_range" :> JDict([begin |-> a.restrict_begin, end |-> a.restrict_end])

\* get_latest_daily_summary, lines 480-512
LatestDailySummary(v, yesterday) ==
    LET summaries == IF IsList(v) THEN v.items
                     ELSE IF HasKey(v, "summaries") THEN v.fields["summaries"]
                     ELSE << >>
    IN  IF Len(summaries) > 0
        THEN LET latest_summary == summaries[1]
             IN  IF ~IsDict(latest_summary)
                 THEN Raise(Exc("AttributeError", <<"'int' object has no attribute 'get'">>))
                 ELSE Ret(JDict(
                    [date |-> DictGet(latest_summary, "date", yesterday),
                     summary |-> Some(latest_summary),
                     formatted_summary |-> JDict(
                        [productivity_score |-> DictGet(latest_summary, "productivity_pulse", 0),
                         total_hours |-> DictGet(latest_summary, "total_hours", 0),
                         productive_time_percent |-> DictGet(latest_summary, "all_productive_percentage", 0),
                         distracting_time_percent |-> DictGet(latest_summary, "all_distracting_percentage", 0),
                         neutral_time_percent |-> DictGet(latest_summary, "neutral_percentage", 0)]),
                     note |-> "This is the most recent processed daily summary (typically yesterday's data)"]))
        ELSE Ret(JDict(
                [date |-> yesterday,
                 summary |-> None,
                 message |-> "No daily summaries available",
                 note |-> "Daily summaries require at least one complete day of tracking"]))

\* lines 564-572
DistractingActivity(row) ==
    JDict([rank |-> row[1],
           activity |-> row[4],
           category |-> row[5],
           time_spent_seconds |-> row[2],
           time_spent_minutes |-> Rounded(row[2], 60, 1),
           productivity_level |-> row[6],
           distraction_level |-> IF row[6] = -2 THEN "Very Distracting" ELSE "Distracting"])

\* lines 555-572: the rows of six or more fields whose productivity is negative.
RECURSIVE DistractingActivities(_)
DistractingActivities(rows) ==
    IF rows = << >> THEN << >>
    ELSE (IF Len(Head(rows)) >= 6 /\ Head(rows)[6] < 0
          THEN <<DistractingActivity(Head(rows))>> ELSE << >>)
         \o DistractingActivities(Tail(rows))

\* list.sort(key=time_spent_seconds, reverse=True): stable, equal keys keep
\* their order.
RECURSIVE InsertByTime(_, _)
InsertByTime(sorted, x) ==
    IF sorted = << >> THEN <<x>>
    ELSE IF Head(sorted).fields["time_spent_seconds"] >= x.fields["time_spent_seconds"]
    THEN <<Head(sorted)>> \o InsertByTime(Tail(sorted), x)
    ELSE <<x>> \o sorted

\* Variant of SortByTimeDescending: the activities keep the order of their
\* rows.  C20 fails under it.
KeepRowOrder(items) == items

RECURSIVE SortByTimeDescending(_)
SortByTimeDescending(items) ==
    IF items = << >> THEN << >>
    ELSE InsertByTime(SortByTimeDescending(SubSeq(items, 1, Len(items) - 1)),
                      items[Len(items)])

\* items[:limit]
SliceTo(items, limit) ==
    IF limit >= 0 THEN SubSeq(items, 1, IF limit < Len(items) THEN limit ELSE Len(items))
    ELSE SubSeq(items, 1, IF Len(items) + limit > 0 THEN Len(items) + limit ELSE 0)

RECURSIVE SumTimeSpent(_)
SumTimeSpent(items) ==
    IF items = << >> THEN 0
    ELSE Head(items).fields["time_spent_seconds"] + SumTimeSpent(Tail(items))

\* Variant of TopDistractions: the totals are taken over all the distracting
\* rows of the day, not over the truncated list.  C29 fails under it.
TopDistractionsDayTotals(v, limit, today) ==
    LET distracting_activities ==
            IF HasKey(v, "rows") THEN DistractingActivities(v.fields["rows"]) ELSE << >>
        top_distractions == SliceTo(SortByTimeDescending(distracting_activities), limit)
        total_distraction_time == SumTimeSpent(distracting_activities)
    IN  Ret(JDict(
            [date |-> today,
             activities |-> top_distractions,
             summary |-> JDict(
                [total_activities |-> Len(distracting_activities),
                 total_distraction_time_minutes |-> Rounded(total_distraction_time, 60, 1),
                 total_distraction_time_hours |-> Rounded(total_distraction_time, 3600, 2)])]))

\* get_top_distractions, lines 552-590
TopDistractions(v, limit, today) ==
    LET distracting_activities ==
            IF HasKey(v, "rows") THEN DistractingActivities(v.fields["rows"]) ELSE << >>
        top_distractions == SliceTo(SortByTimeDescending(distracting_activities), limit)
        total_distraction_time == SumTimeSpent(top_distractions)
    IN  Ret(JDict(
            [date |-> today,
             activities |-> top_distractions,
             summary |-> JDict(
                [total_activities |-> Len(top_distractions),
                 total_distraction_time_minutes |-> Rounded(total_distraction_time, 60, 1),
                 total_distraction_time_hours |-> Rounded(total_distraction_time, 3600, 2)])]))

\* lines 637-654: the seconds of the rows whose productivity is in levels.
RECURSIVE SumSeconds(_, _)
SumSeconds(rows, levels) ==
    IF rows = << >> THEN 0
    ELSE (IF Head(rows)[6] \in levels THEN Head(rows)[2] ELSE 0)
         + SumSeconds(Tail(rows), levels)

RECURSIVE TotalSeconds(_)
TotalSeconds(rows) ==
    IF rows = << >> THEN 0 ELSE Head(rows)[2] + TotalSeconds(Tail(rows))

\* The hundredths k for which int((k / 100) * 100) is k - 1 in IEEE double
\* arithmetic: k / 100 rounds below k / 100 and the product stays below k.
FloatShortfall == {29, 57, 58}

\* lines 668-677: int((weighted / total_seconds) * 100) in double arithmetic,
\* for weighted = quarters / 4 and total_seconds > 0.  The quotient is the
\* double nearest the exact ratio, so the result is the exact integer part
\* except where the exact value is one of the integers above.
ProductivityPulse(quarters, total_seconds) ==
    IF total_seconds > 0
    THEN LET exact == (100 * quarters) \div (4 * total_seconds)
         IN  IF (100 * quarters) % (4 * total_seconds) = 0 /\ exact \in FloatShortfall
             THEN exact - 1 ELSE exact
    ELSE 0

\* Variant of WeightedQuarters: the seconds at level 2, which productive
\* also holds, are weighted 1.0 and once more 0.75.  C27 fails under it.
WeightedQuartersTwice(very_productive, productive, neutral, distracting, very_distracting) ==
    4 * very_productive + 3 * productive + 2 * neutral + distracting

\* lines 669-673: the weighted seconds, in quarters of a second.  The weights
\* are 1.0, 0.75, 0.5, 0.25 and 0.0; productive holds levels 1 and 2 and
\* distracting levels -1 and -2, so the extreme levels are taken out first.
WeightedQuarters(very_productive, productive, neutral, distracting, very_distracting) ==
    4 * very_productive + 3 * (productive - very_productive) + 2 * neutral
        + (distracting - very_distracting) + 0 * very_distracting

\* Variant of LevelDescription: the thresholds are exclusive.  C19 fails
\* under it.
LevelDescriptionExclusive(productivity_pulse) ==
    IF productivity_pulse > 75 THEN "Excellent"
    ELSE IF productivity_pulse > 60 THEN "Good"
    ELSE IF productivity_pulse > 40 THEN "Fair"
    ELSE "Needs Improvement"

\* lines 680-687
LevelDescription(productivity_pulse) ==
    IF productivity_pulse >= 75 THEN "Excellent"
    ELSE IF productivity_pulse >= 60 THEN "Good"
    ELSE IF productivity_pulse >= 40 THEN "Fair"
    ELSE "Needs Improvement"

\* Variant of HasRows: `result.get("rows")`, which an empty list of rows
\* fails.  C30 fails under it.
HasNonEmptyRows(v) == HasKey(v, "rows") /\ v.fields["rows"] # << >>

\* line 626: `if result and "rows" in result`
HasRows(v) == Truthy(v) /\ HasKey(v, "rows")

\* get_productivity_score, lines 626-718
ProductivityScore(v, today) ==
    IF HasRows(v)
    THEN LET rows == v.fields["rows"]
         IN  IF \E i \in DOMAIN rows : Len(rows[i]) < 6
             THEN Raise(Exc("IndexError", <<"list index out of range">>))
             ELSE
             LET total_seconds == TotalSeconds(rows)
                 productive_seconds == SumSeconds(rows, {1, 2})
                 distracting_seconds == SumSeconds(rows, {-1, -2})
                 neutral_seconds == SumSeconds(rows, {0})
                 very_productive_seconds == SumSeconds(rows, {2})
                 very_distracting_seconds == SumSeconds(rows, {-2})
                 percent(seconds) == IF total_seconds > 0
                                     THEN Rounded(100 * seconds, total_seconds, 1)
                                     ELSE Rounded(0, 1, 1)
                 productivity_pulse ==
                     ProductivityPulse(
                         WeightedQuarters(very_productive_seconds, productive_seconds,
                                          neutral_seconds, distracting_seconds,
                                          very_distracting_seconds),
                         total_seconds)
             IN  Ret(JDict(
                    [date |-> today,
                     productivity_pulse |-> productivity_pulse,
                     level_description |-> LevelDescription(productivity_pulse),
                     time_breakdown |-> JDict(
                        [total_hours |-> Rounded(total_seconds, 3600, 2),
                         productive_hours |-> Rounded(productive_seconds, 3600, 2),
                         distracting_hours |-> Rounded(distracting_seconds, 3600, 2),
                         neutral_hours |-> Rounded(neutral_seconds, 3600, 2)]),
                     percentages |-> JDict(
                        [productive |-> percent(productive_seconds),
                         distracting |-> percent(distracting_seconds),
                         neutral |-> percent(neutral_seconds)]),
                     detailed_breakdown |-> JDict(
                        [very_productive_hours |-> Rounded(very_productive_seconds, 3600, 2),
                         very_distracting_hours |-> Rounded(very_distracting_seconds, 3600, 2)]),
                     note |-> "Calculated from real-time activity data"]))
    ELSE Ret(JDict(
            [date |-> today,
             productivity_pulse |-> 0,
             level_description |-> "No Data",
             message |-> "No productivity data available for today yet"]))

\* Variant of HealthReport: the timestamp is left out.  C10 fails under it.
HealthReportNoTimestamp(v, now) == Ret(JDict([healthy |-> v, api_key_valid |-> v]))

\* health_check, lines 436-441
HealthReport(v, now) ==
    Ret(JDict([healthy |-> v, timestamp |-> Isoformat(now), api_key_valid |-> v]))

\* Each tool's body after the client method returned v.  `started` holds
\* the clock a tool read when it began, `now` is the clock as it ends.
ToolBody(op, a, v, started, now) ==
    CASE op = "get_daily_summary_feed" -> WrapList(v, "summaries", DateRange(a))
      [] op = "get_alerts_feed" -> WrapList(v, "alerts", "operation" :> a.op)
      [] op = "get_highlights_feed" -> WrapList(v, "highlights", DateRange(a))
      [] op = "health_check" -> HealthReport(v, now)
      [] op = "get_latest_daily_summary" ->
            LatestDailySummary(v, Strftime(DayBefore(Get(started))))
      [] op = "get_top_distractions" -> TopDistractions(v, a.limit, Strftime(Get(started)))
      [] op = "get_productivity_score" -> ProductivityScore(v, Strftime(Get(started)))
      [] OTHER -> Ret(v)

\* The context each tool's `except Exception` puts before str(e).
FailurePrefix(op) ==
    CASE op = "get_analytic_data" -> "Failed to get analytic data: "
      [] op = "get_daily_summary_feed" -> "Failed to get daily summary feed: "
      [] op = "get_alerts_feed" -> "Failed to get alerts feed: "
      [] op = "get_highlights_feed" -> "Failed to get highlights feed: "
      [] op = "post_highlight" -> "Failed to post highlight: "
      [] op = "start_focus_session" -> "Failed to start focus session: "
      [] op = "end_focus_session" -> "Failed to end focus session: "
      [] op = "get_focus_session_status" -> "Failed to get focus session status: "
      [] op = "post_offline_time" -> "Failed to post offline time: "
      [] op = "get_latest_daily_summary" -> "Failed to get today's summary: "
      [] op = "get_top_distractions" -> "Failed to get top distractions: "
      [] op = "get_productivity_score" -> "Failed to get productivity score: "

RuntimeError(msg) == Exc("RuntimeError", msg)

\* Variant of ToolExcept: the tool answers with an error structure where it
\* should raise.  C4 fails under it.
ToolExceptReturnsError(op, e, now) ==
    Ret(JDict([healthy |-> FALSE, timestamp |-> Isoformat(now), error |-> e.msg]))

\* Each tool's except clauses, for an exception e raised inside its try.
ToolExcept(op, e, now) ==
    IF op = "health_check"
    THEN Ret(JDict([healthy |-> FALSE, timestamp |-> Isoformat(now), error |-> e.msg]))
    ELSE IF op = "get_analytic_data" /\ IsValueError(e)
    THEN Raise(RuntimeError(e.msg))
    ELSE Raise(RuntimeError(<<FailurePrefix(op)>> \o e.msg))

\* A tool's outcome once the client method has ended with r.
ToolResult(op, a, r, started, now) ==
    LET Ended(body) == IF Raised(body) THEN ToolExcept(op, body.exc, now) ELSE body
    IN  IF Raised(r) THEN ToolExcept(op, r.exc, now)
        ELSE Ended(ToolBody(op, a, r.value, started, now))

\* The exception a tool's except clause caught, if any.
ToolCaught(op, a, r, started, now) ==
    LET Ended(body) == IF Raised(body) THEN Some(body.exc) ELSE None
    IN  IF Raised(r) THEN Some(r.exc)
        ELSE Ended(ToolBody(op, a, r.value, started, now))

-----------------------------------------------------------------------------
(* create_server and the tools it registers.                               *)

\* The functions decorated with @mcp.tool().
RegisteredTools ==
    {"get_analytic_data", "get_daily_summary_feed", "get_alerts_feed",
     "get_highlights_feed", "post_highlight", "start_focus_session",
     "end_focus_session", "get_focus_session_status", "post_offline_time",
     "health_check", "get_latest_daily_summary", "get_top_distractions",
     "get_productivity_score"}

\* Variant of create_server: only an unset key is refused, an empty one is
\* taken.  C13 fails under it.
create_server_unset_only(env) ==
    /\ server.state = "none"
    /\ server' = IF env = None
                 THEN [state |-> "failed", api_key |-> None,
                       error |-> Some(ValueError(
                            <<"RESCUETIME_API_KEY environment variable is required">>))]
                 ELSE [state |-> "running", api_key |-> env, error |-> None]
    /\ UNCHANGED <<client_instance, handles, inv>>

\* create_server, lines 57-66 and 733-735; env is os.getenv("RESCUETIME_API_KEY").
create_server(env) ==
    /\ server.state = "none"
    /\ server' = IF env = None \/ Get(env) = ""
                 THEN [state |-> "failed", api_key |-> None,
                       error |-> Some(ValueError(
                            <<"RESCUETIME_API_KEY environment variable is required">>))]
                 ELSE [state |-> "running", api_key |-> env, error |-> None]
    /\ UNCHANGED <<client_instance, handles, inv>>

\* The tools that read datetime.now() as they start.
ClockTools == {"get_latest_daily_summary", "get_top_distractions", "get_productivity_score"}

\* Variant of ToolStart: get_client() constructs a client for every
\* invocation.  C14 fails under it.
ToolStartOwnHandle(p, op, a, now) ==
    /\ server.state = "running"
    /\ op \in RegisteredTools
    /\ inv[p].pc = "idle"
    /\ Len(handles) < MaxHandles
    /\ LET h == Len(handles) + 1
           hs == Append(handles, Handle(Get(server.api_key)))
           frame == [Idle EXCEPT !.layer = "tool", !.op = op, !.args = a,
                                 !.handle = Some(h),
                                 !.started = IF op \in ClockTools THEN Some(now) ELSE None]
           Begun(called, b) ==
                IF b.sent
                THEN [called EXCEPT !.pc = "awaiting", !.req = Some(b.req), !.nreq = 1]
                ELSE [called EXCEPT !.pc = "done", !.cres = b.r,
                                    !.caught = ToolCaught(op, a, b.r, Some(now), now),
                                    !.result = ToolResult(op, a, b.r, Some(now), now)]
           Run(t) ==
                IF t.t = "raise"
                THEN [frame EXCEPT !.pc = "done", !.caught = Some(t.exc),
                                   !.result = ToolExcept(op, t.exc, now)]
                ELSE Begun([frame EXCEPT !.m = t.m, !.margs = t.a, !.ncalls = 1],
                           ClientBegin(hs[h], t.m, t.a))
       IN  /\ client_instance' = Some(h)
           /\ handles' = hs
           /\ inv' = [inv EXCEPT ![p] = Run(ToolCall(op, a, now))]
    /\ UNCHANGED server

\* Variant of ToolStart: the tool validates its input before it calls
\* get_client(), so a rejected invocation constructs no client.  C28 fails
\* under it.
ToolStartValidatesFirst(p, op, a, now) ==
    /\ server.state = "running"
    /\ op \in RegisteredTools
    /\ inv[p].pc = "idle"
    /\ client_instance = None => Len(handles) < MaxHandles
    /\ LET h == IF client_instance = None THEN Len(handles) + 1 ELSE Get(client_instance)
           hs == IF client_instance = None
                 THEN Append(handles, Handle(Get(server.api_key))) ELSE handles
           frame == [Idle EXCEPT !.layer = "tool", !.op = op, !.args = a,
                                 !.handle = Some(h),
                                 !.started = IF op \in ClockTools THEN Some(now) ELSE None]
           Begun(called, b) ==
                IF b.sent
                THEN [called EXCEPT !.pc = "awaiting", !.req = Some(b.req), !.nreq = 1]
                ELSE [called EXCEPT !.pc = "done", !.cres = b.r,
                                    !.caught = ToolCaught(op, a, b.r, Some(now), now),
                                    !.result = ToolResult(op, a, b.r, Some(now), now)]
           Run(t) ==
                IF t.t = "raise"
                THEN [frame EXCEPT !.pc = "done", !.caught = Some(t.exc),
                                   !.result = ToolExcept(op, t.exc, now)]
                ELSE Begun([frame EXCEPT !.m = t.m, !.margs = t.a, !.ncalls = 1],
                           ClientBegin(hs[h], t.m, t.a))
           Rejected == ToolCall(op, a, now).t = "raise"
       IN  /\ client_instance' = IF Rejected THEN client_instance ELSE Some(h)
           /\ handles' = IF Rejected THEN handles ELSE hs
           /\ inv' = [inv EXCEPT ![p] = Run(ToolCall(op, a, now))]
    /\ UNCHANGED server

\* A tool called by caller p: get_client() (lines 68-73), the tool's body up
\* to its await of the client, and the client method up to the round trip.
ToolStart(p, op, a, now) ==
    /\ server.state = "running"
    /\ op \in RegisteredTools
    /\ inv[p].pc = "idle"
    /\ client_instance = None => Len(handles) < MaxHandles
    /\ LET h == IF client_instance = None THEN Len(handles) + 1 ELSE Get(client_instance)
           hs == IF client_instance = None
                 THEN Append(handles, Handle(Get(server.api_key))) ELSE handles
           frame == [Idle EXCEPT !.layer = "tool", !.op = op, !.args = a,
                                 !.handle = Some(h),
                                 !.started = IF op \in ClockTools THEN Some(now) ELSE None]
           Begun(called, b) ==
                IF b.sent
                THEN [called EXCEPT !.pc = "awaiting", !.req = Some(b.req), !.nreq = 1]
                ELSE [called EXCEPT !.pc = "done", !.cres = b.r,
                                    !.caught = ToolCaught(op, a, b.r, Some(now), now),
                                    !.result = ToolResult(op, a, b.r, Some(now), now)]
           Run(t) ==
                IF t.t = "raise"
                THEN [frame EXCEPT !.pc = "done", !.caught = Some(t.exc),
                                   !.result = ToolExcept(op, t.exc, now)]
                ELSE Begun([frame EXCEPT !.m = t.m, !.margs = t.a, !.ncalls = 1],
                           ClientBegin(hs[h], t.m, t.a))
       IN  /\ client_instance' = Some(h)
           /\ handles' = hs
           /\ inv' = [inv EXCEPT ![p] = Run(ToolCall(op, a, now))]
    /\ UNCHANGED server

\* The round trip of caller p's request ends with outcome o; the client
\* method and, for a tool, the tool's body run to their end.
Respond(p, o, now) ==
    /\ inv[p].pc = "awaiting"
    /\ LET f == inv[p]
           Ended(r) ==
                [f EXCEPT !.pc = "done", !.outcome = Some(o), !.cres = r,
                          !.caught = IF f.layer = "tool"
                                     THEN ToolCaught(f.op, f.args, r, f.started, now)
                                     ELSE None,
                          !.result = IF f.layer = "tool"
                                     THEN ToolResult(f.op, f.args, r, f.started, now)
                                     ELSE r]
       IN  inv' = [inv EXCEPT ![p] =
                Ended(ClientResult(f.m, f.margs, MakeRequestResult(o)))]
    /\ UNCHANGED <<server, client_instance, handles>>

\* The caller takes the result; it may call again.
Return(p) ==
    /\ inv[p].pc = "done"
    /\ inv' = [inv EXCEPT ![p] = Idle]
    /\ UNCHANGED <<server, client_instance, handles>>

\* tools[name] for a name create_server registered no tool under
\* (tests/test_server.py: tools = {tool.name: tool ...}; tools["dismiss_alert"]).
CallUnregistered(p, name, a) ==
    /\ server.state = "running"
    /\ name \notin RegisteredTools
    /\ inv[p].pc = "idle"
    /\ inv' = [inv EXCEPT ![p] =
            [Idle EXCEPT !.pc = "done", !.layer = "framework", !.op = name, !.args = a,
                         !.result = Raise(Exc("KeyError", <<"'", name, "'">>))]]
    /\ UNCHANGED <<server, client_instance, handles>>

\* cleanup, lines 725-729: up to the await of close().
CleanupBegin(p) ==
    /\ server.state = "running"
    /\ inv[p].pc = "idle"
    /\ IF client_instance # None
       THEN /\ handles' = [handles EXCEPT ![Get(client_instance)].closed = TRUE,
                                          ![Get(client_instance)].closes = @ + 1]
            /\ inv' = [inv EXCEPT ![p] =
                    [Idle EXCEPT !.pc = "closing", !.layer = "cleanup", !.op = "cleanup",
                                 !.handle = client_instance]]
       ELSE /\ handles' = handles
            /\ inv' = [inv EXCEPT ![p] =
                    [Idle EXCEPT !.pc = "done", !.layer = "cleanup", !.op = "cleanup",
                                 !.result = Ret(None)]]
    /\ UNCHANGED <<server, client_instance>>

\* cleanup, line 730: after close() returned.
CleanupEnd(p) ==
    /\ inv[p].pc = "closing"
    /\ client_instance' = None
    /\ inv' = [inv EXCEPT ![p] = [inv[p] EXCEPT !.pc = "done", !.result = Ret(None)]]
    /\ UNCHANGED <<server, handles>>

-----------------------------------------------------------------------------
(* The inputs callers supply.                                              *)

EnvValues == {None, Some(""), Some("rt-key-1")}

\* Optional[str] date arguments.
DateArgs == {None, Some(""), Some("2024-01-01")}

Perspectives == {"rank", "interval", "member", ""}
Resolutions == {"minute", "hour", "day", "week", "month", "year"}
RestrictKinds ==
    {None, Some(""), Some("bogus"), Some("category"), Some("activity"),
     Some("productivity"), Some("document"), Some("overview")}
NameFilters == {None, Some("work")}

AlertOps == {"list", "dismiss", "archive"}

\* The characters of str arguments, and the strings of at most MaxStrLen of them.
Chars == {"-", "+", " ", "_", "0", "1", "5", "a"}

RECURSIVE StringsOfLen(_)
StringsOfLen(n) ==
    IF n = 0 THEN {<< >>}
    ELSE {Append(str, c) : str \in StringsOfLen(n - 1), c \in Chars}

Strings == UNION {StringsOfLen(n) : n \in 0..MaxStrLen}

\* Union[int, str, None] durations.
Durations ==
    {None} \cup {Some(IntArg(n)) : n \in (0 - MaxDuration)..MaxDuration}
           \cup {Some(StrArg(str)) : str \in Strings}

Limits == (0 - 1)..MaxLimit

AlertIds == (0 - 1)..MaxAlertId

\* Direct callers of _make_request: endpoint, method, and dicts that may
\* name the two fixed parameters themselves.
Endpoints == {"data", "alerts_feed"}
Methods == {"GET", "POST", "PUT"}
CallerEntries == [key |-> "intruder", format |-> "xml", test |-> "value"]
CallerDicts ==
    {None} \cup {Some([k \in K |-> CallerEntries[k]]) : K \in SUBSET DOMAIN CallerEntries}

-----------------------------------------------------------------------------
(* The tools, one action each, with the arguments callers pass.            *)

\* Caller p has nothing in flight and the server is up.
CanCall(p) == server.state = "running" /\ inv[p].pc = "idle"

get_analytic_data(p) ==
    /\ CanCall(p)
    /\ \E perspective \in Perspectives, resolution_time \in Resolutions,
          restrict_kind \in RestrictKinds, range \in {None, Some("2024-01-01")},
          restrict_thing \in NameFilters, now \in Clock :
            ToolStart(p, "get_analytic_data",
                      [perspective |-> perspective, resolution_time |-> resolution_time,
                       restrict_begin |-> range, restrict_end |-> range,
                       restrict_kind |-> restrict_kind, restrict_project |-> None,
                       restrict_thing |-> restrict_thing], now)

get_daily_summary_feed(p) ==
    /\ CanCall(p)
    /\ \E restrict_begin \in DateArgs, restrict_end \in DateArgs, now \in Clock :
            ToolStart(p, "get_daily_summary_feed",
                      [restrict_begin |-> restrict_begin, restrict_end |-> restrict_end],
                      now)

get_alerts_feed(p) ==
    /\ CanCall(p)
    /\ \E op \in AlertOps, now \in Clock : ToolStart(p, "get_alerts_feed", [op |-> op], now)

get_highlights_feed(p) ==
    /\ CanCall(p)
    /\ \E restrict_begin \in DateArgs, restrict_end \in DateArgs, now \in Clock :
            ToolStart(p, "get_highlights_feed",
                      [restrict_begin |-> restrict_begin, restrict_end |-> restrict_end],
                      now)

post_highlight(p) ==
    /\ CanCall(p)
    /\ \E source \in {None, Some("mcp")}, now \in Clock :
            ToolStart(p, "post_highlight",
                      [highlight_date |-> "2024-01-15",
                       description |-> "Shipped the release", source |-> source], now)

start_focus_session(p) ==
    /\ CanCall(p)
    /\ \E duration \in Durations, now \in Clock :
            ToolStart(p, "start_focus_session", [duration |-> duration], now)

end_focus_session(p) ==
    /\ CanCall(p)
    /\ \E now \in Clock : ToolStart(p, "end_focus_session", << >>, now)

get_focus_session_status(p) ==
    /\ CanCall(p)
    /\ \E now \in Clock : ToolStart(p, "get_focus_session_status", << >>, now)

post_offline_time(p) ==
    /\ CanCall(p)
    /\ \E offline_hours \in {1, 2}, now \in Clock :
            ToolStart(p, "post_offline_time",
                      [offline_date |-> "2024-01-15", offline_hours |-> offline_hours,
                       description |-> "Meeting"], now)

health_check(p) ==
    /\ CanCall(p)
    /\ \E now \in Clock : ToolStart(p, "health_check", << >>, now)

get_latest_daily_summary(p) ==
    /\ CanCall(p)
    /\ \E now \in Clock : ToolStart(p, "get_latest_daily_summary", << >>, now)

get_top_distractions(p) ==
    /\ CanCall(p)
    /\ \E limit \in Limits, now \in Clock :
            ToolStart(p, "get_top_distractions", [limit |-> limit], now)

get_productivity_score(p) ==
    /\ CanCall(p)
    /\ \E now \in Clock : ToolStart(p, "get_productivity_score", << >>, now)

\* A caller asks the server for the dismiss_alert tool.
call_dismiss_alert(p) ==
    /\ CanCall(p)
    /\ \E alert_id \in AlertIds :
            CallUnregistered(p, "dismiss_alert", [alert_id |-> alert_id])

\* The round trip of caller p ends, with any outcome the remote can produce.
ResponseArrives(p) ==
    /\ inv[p].pc = "awaiting"
    /\ \E o \in Outcomes, now \in Clock : Respond(p, o, now)

\* The client's methods called directly on a client object.
client_make_request(p) ==
    /\ inv[p].pc = "idle"
    /\ \E h \in DOMAIN handles, endpoint \in Endpoints, method \in Methods,
          params \in CallerDicts, data \in CallerDicts :
            DirectCall(p, h, "_make_request",
                       [endpoint |-> endpoint, method |-> method,
                        params |-> params, data |-> data])

client_dismiss_alert(p) ==
    /\ inv[p].pc = "idle"
    /\ \E h \in DOMAIN handles, alert_id \in AlertIds :
            DirectCall(p, h, "dismiss_alert", [alert_id |-> alert_id])

client_close(p) ==
    /\ inv[p].pc = "idle"
    /\ \E h \in DOMAIN handles : CloseClient(h)

\* The date objects and the Optional[Union[str, date]] values a caller of the
\* client passes for a date field.
DateObjects == {Date(2024, 3, 5), Date(999, 12, 31)}
DateInputs ==
    {None, Some(StrValue("2024-01-01"))} \cup {Some(DateValue(d)) : d \in DateObjects}

\* The client's methods that take dates, called with a request model the
\* caller built; `given` keeps the values the caller gave for the date fields.
client_get_analytic_data(p) ==
    /\ inv[p].pc = "idle"
    /\ \E h \in DOMAIN handles, restrict_begin \in DateInputs, restrict_end \in DateInputs :
            DirectCall(p, h, "get_analytic_data",
                       [request |-> AnalyticDataRequest("rank", "hour", restrict_begin,
                                                        restrict_end, None, None, None),
                        given |-> [restrict_begin |-> restrict_begin,
                                   restrict_end |-> restrict_end]])

client_get_daily_summary_feed(p) ==
    /\ inv[p].pc = "idle"
    /\ \E h \in DOMAIN handles, restrict_begin \in DateInputs, restrict_end \in DateInputs :
            DirectCall(p, h, "get_daily_summary_feed",
                       [request |-> Some(DailySummaryRequest(restrict_begin, restrict_end)),
                        given |-> [restrict_begin |-> restrict_begin,
                                   restrict_end |-> restrict_end]])

client_get_highlights_feed(p) ==
    /\ inv[p].pc = "idle"
    /\ \E h \in DOMAIN handles, restrict_begin \in DateInputs, restrict_end \in DateInputs :
            DirectCall(p, h, "get_highlights_feed",
                       [restrict_begin |-> restrict_begin, restrict_end |-> restrict_end,
                        given |-> [restrict_begin |-> restrict_begin,
                                   restrict_end |-> restrict_end]])

client_post_highlight(p) ==
    /\ inv[p].pc = "idle"
    /\ \E h \in DOMAIN handles, highlight_date \in DateInputs \ {None} :
            DirectCall(p, h, "post_highlight",
                       [highlight |-> HighlightPost(Get(highlight_date),
                                                    "Shipped the release", None),
                        given |-> [highlight_date |-> highlight_date]])

\* Optional[int] durations a caller of the client passes; the client does
\* not validate them.
ClientDurations == {None} \cup {Some(n) : n \in {0 - 1, 0, 7, 30, 90}}

client_start_focus_session(p) ==
    /\ inv[p].pc = "idle"
    /\ \E h \in DOMAIN handles, duration \in ClientDurations :
            DirectCall(p, h, "start_focus_session", [duration |-> duration])

\* Optional[AlertsFeedRequest] values a caller of the client passes.
AlertRequests == {None} \cup {Some(AlertsFeedRequest(op)) : op \in AlertOps}

client_get_alerts_feed(p) ==
    /\ inv[p].pc = "idle"
    /\ \E h \in DOMAIN handles, request \in AlertRequests :
            DirectCall(p, h, "get_alerts_feed", [request |-> request])

client_health_check(p) ==
    /\ inv[p].pc = "idle"
    /\ \E h \in DOMAIN handles : DirectCall(p, h, "health_check", << >>)

client_post_offline_time(p) ==
    /\ inv[p].pc = "idle"
    /\ \E h \in DOMAIN handles, offline_date \in DateInputs \ {None} :
            DirectCall(p, h, "post_offline_time",
                       [offline_time |-> OfflineTimePost(Get(offline_date), 2, "Meeting"),
                        given |-> [offline_date |-> offline_date]])

-----------------------------------------------------------------------------
(* Specifications.                                                         *)

Init ==
    /\ server = [state |-> "none", api_key |-> None, error |-> None]
    /\ client_instance = None
    /\ handles = << >>
    /\ inv = [p \in Callers |-> Idle]

\* The server and its tools, one invocation at a time.
Next ==
    \/ \E env \in EnvValues : create_server(env)
    \/ get_analytic_data(1)
    \/ get_daily_summary_feed(1)
    \/ get_alerts_feed(1)
    \/ get_highlights_feed(1)
    \/ post_highlight(1)
    \/ start_focus_session(1)
    \/ end_focus_session(1)
    \/ get_focus_session_status(1)
    \/ post_offline_time(1)
    \/ health_check(1)
    \/ get_latest_daily_summary(1)
    \/ get_top_distractions(1)
    \/ get_productivity_score(1)
    \/ call_dismiss_alert(1)
    \/ ResponseArrives(1)
    \/ CleanupBegin(1)
    \/ CleanupEnd(1)
    \/ Return(1)

Spec == Init /\ [][Next]_vars

\* A client object used directly, one call at a time.
NextClient ==
    \/ NewClient("rt-key-1")
    \/ client_close(1)
    \/ client_make_request(1)
    \/ client_dismiss_alert(1)
    \/ client_get_analytic_data(1)
    \/ client_get_daily_summary_feed(1)
    \/ client_get_highlights_feed(1)
    \/ client_post_highlight(1)
    \/ client_post_offline_time(1)
    \/ client_start_focus_session(1)
    \/ client_get_alerts_feed(1)
    \/ client_health_check(1)
    \/ ResponseArrives(1)
    \/ Return(1)

SpecClient == Init /\ [][NextClient]_vars

\* The outcomes the remote produces while several callers are at work: a
\* list, a server error, a refused connection.
ConcurrentOutcomes ==
    {Response(200, Some("application/json"),
              Body("[{\"id\": 1}]", Some(JList(<< JDict("id" :> 1) >>)))),
     Response(500, Some("text/plain"), Body("", None)),
     RequestError("Connection refused")}

ConcurrentResponseArrives(p) ==
    /\ inv[p].pc = "awaiting"
    /\ \E o \in ConcurrentOutcomes, now \in Clock : Respond(p, o, now)

\* start_focus_session while other callers are at work, with a duration the
\* tool rejects after it has got the client: 7 is no multiple of 5.
ConcurrentDurations == {Some(IntArg(7))}

start_focus_session_concurrently(p) ==
    /\ CanCall(p)
    /\ \E duration \in ConcurrentDurations, now \in Clock :
            ToolStart(p, "start_focus_session", [duration |-> duration], now)

\* The server with several callers at once: the framework dispatches tool
\* calls and cleanup as tasks of one event loop, each running from one await
\* to the next.
NextConcurrent ==
    \/ create_server(Some("rt-key-1"))
    \/ \E p \in Callers : get_focus_session_status(p)
    \/ \E p \in Callers : end_focus_session(p)
    \/ \E p \in Callers : health_check(p)
    \/ \E p \in Callers : start_focus_session_concurrently(p)
    \/ \E p \in Callers : ConcurrentResponseArrives(p)
    \/ \E p \in Callers : CleanupBegin(p)
    \/ \E p \in Callers : CleanupEnd(p)
    \/ \E p \in Callers : Return(p)

SpecConcurrent == Init /\ [][NextConcurrent]_vars

\* Analytic data for the two tools that compute from rows: up to MaxRows
\* rows, each with a time spent and a productivity level.  A row has one of
\* the times below at one of the five levels -2..2, or it is a row of zero
\* seconds, or a row at level 3, a value outside the five levels.
SecondsValues == {4, 5, 21, 3600}
Levels == (0 - 2)..2
RowCells == (SecondsValues \X Levels) \cup {<<0, 1>>, <<4, 3>>}
ActivityNames == [i \in 1..MaxRows |-> "activity-" \o NatToStr(i)]

RowLists ==
    UNION {{[i \in 1..n |-> Row(i, c[i][1], ActivityNames[i], c[i][2])] :
                c \in [1..n -> RowCells]} : n \in 0..MaxRows}

\* The remote answers with a JSON object of rows.  The text of the body is
\* left unspelled: _make_request reads response.text only for a status that
\* is not 2xx or a content type that is not JSON.
RowOutcomes ==
    {Response(200, Some("application/json"),
              Body("{\"rows\": [...]}", Some(JDict("rows" :> rows)))) : rows \in RowLists}

\* Answers without a rows member: an empty object, an object of other
\* members, a list, and a body that is not JSON.
NoRowsOutcomes ==
    {Response(200, Some("application/json"), Body("{}", Some(JDict(EmptyDict)))),
     Response(200, Some("application/json"),
              Body("{\"status\": \"ok\"}", Some(JDict("status" :> "ok")))),
     Response(200, Some("application/json"),
              Body("[{\"id\": 1}]", Some(JList(<< JDict("id" :> 1) >>)))),
     Response(200, Some("text/plain"), Body("OK", None))}

RowsResponseArrives(p) ==
    /\ inv[p].pc = "awaiting"
    /\ \E o \in RowOutcomes \cup NoRowsOutcomes, now \in Clock : Respond(p, o, now)

\* The server's two derived views of the day's rows, over every list of rows.
NextRows ==
    \/ create_server(Some("rt-key-1"))
    \/ get_top_distractions(1)
    \/ get_productivity_score(1)
    \/ RowsResponseArrives(1)
    \/ Return(1)

SpecRows == Init /\ [][NextRows]_vars

-----------------------------------------------------------------------------
(* Properties.                                                             *)

\* The operations of the specification's table of tools.
SpecOperations ==
    {"get_analytic_data", "get_daily_summary_feed", "get_latest_daily_summary",
     "get_alerts_feed", "dismiss_alert", "get_highlights_feed", "post_highlight",
     "start_focus_session", "end_focus_session", "get_focus_session_status",
     "post_offline_time", "get_top_distractions", "get_productivity_score",
     "health_check"}

\* The parameters a request carries: the query on GET, the form body on POST.
Carried(req) == IF req.method = "GET" THEN req.query ELSE req.form

\* The round trip of frame f ended without a 2xx response.
FailedRequest(f) ==
    /\ f.outcome # None
    /\ IF Get(f.outcome).kind = "transport" THEN TRUE
       ELSE Get(f.outcome).status \notin 200..299

\* Sequence msg ends with the pieces of sequence tail.
EndsWith(msg, tail) ==
    /\ Len(msg) >= Len(tail)
    /\ SubSeq(msg, Len(msg) - Len(tail) + 1, Len(msg)) = tail

\* C1: every request _make_request hands to httpx carries key = the client's
\* API key and format = "json", in the query on GET and in the form body (and
\* no query) on POST, whatever parameters and body fields the caller gave.
C1_FixedParametersCarried ==
    \A p \in Callers :
        inv[p].req # None =>
            LET req == Get(inv[p].req)
            IN  /\ Carried(req) # None
                /\ {"key", "format"} \subseteq DOMAIN Get(Carried(req))
                /\ Get(Carried(req))["key"] = handles[Get(inv[p].handle)].api_key
                /\ Get(Carried(req))["format"] = "json"
                /\ req.method = "GET" => req.form = None
                /\ req.method = "POST" => req.query = None

\* C2: a response whose status is not 2xx makes _make_request raise
\* RescueTimeAPIError with that status as status_code and the raw body in
\* response_data; it returns nothing.
C2_NonSuccessStatusRaises ==
    \A p \in Callers :
        (/\ inv[p].m = "_make_request"
         /\ inv[p].outcome # None
         /\ Get(inv[p].outcome).kind = "response"
         /\ Get(inv[p].outcome).status \notin 200..299)
        => /\ inv[p].pc = "done"
           /\ Raised(inv[p].cres)
           /\ inv[p].cres.exc.type = "RescueTimeAPIError"
           /\ inv[p].cres.exc.status_code = Some(Get(inv[p].outcome).status)
           /\ inv[p].cres.exc.response_data
                = Some(JDict("response" :> Get(inv[p].outcome).text))

\* A 404 with a text body has been turned into the error that carries both.
C2_Witness ==
    /\ inv[1].m = "_make_request"
    /\ inv[1].outcome # None
    /\ Get(inv[1].outcome).kind = "response"
    /\ Get(inv[1].outcome).status = 404
    /\ Get(inv[1].outcome).text = "OK"
    /\ Raised(inv[1].cres)
    /\ inv[1].cres.exc.status_code = Some(404)

\* C3: a transport failure (connection, DNS, timeout) makes _make_request
\* raise RescueTimeAPIError with status_code None and response_data None.
C3_TransportFailureRaises ==
    \A p \in Callers :
        (/\ inv[p].m = "_make_request"
         /\ inv[p].outcome # None
         /\ Get(inv[p].outcome).kind = "transport")
        => /\ inv[p].pc = "done"
           /\ Raised(inv[p].cres)
           /\ inv[p].cres.exc.type = "RescueTimeAPIError"
           /\ inv[p].cres.exc.status_code = None
           /\ inv[p].cres.exc.response_data = None
           /\ inv[p].cres.exc.msg = <<"Request error: ", Get(inv[p].outcome).msg>>

\* A timed-out POST has ended in the client's error.
C3_Witness ==
    /\ inv[1].m = "_make_request"
    /\ inv[1].req # None
    /\ Get(inv[1].req).method = "POST"
    /\ inv[1].outcome = Some(RequestError("Request timed out"))
    /\ Raised(inv[1].cres)
    /\ inv[1].cres.exc.type = "RescueTimeAPIError"

\* How a tool invocation f shows its caller that its request failed: it
\* raises RuntimeError ending with the client's message, or, for
\* health_check, it answers healthy = false.
Surfaced(f) ==
    IF f.op = "health_check"
    THEN Returned(f.result) /\ f.result.value.fields.healthy = FALSE
    ELSE /\ Raised(f.result)
         /\ f.result.exc.type = "RuntimeError"
         /\ Raised(f.cres)
         /\ EndsWith(f.result.exc.msg, f.cres.exc.msg)

\* The one failure a tool answers as a plain result: a 404 on the focus
\* session status is read as "no session".
NoSessionAnswer(f) ==
    /\ f.op = "get_focus_session_status"
    /\ Get(f.outcome).kind = "response"
    /\ Get(f.outcome).status = 404
    /\ Returned(f.result)
    /\ f.result.value.fields.active = FALSE
    /\ f.result.value.fields.message = "No focus session data available"

\* C4 as stated: a tool invocation sends at most one request, and when that
\* request fails the invocation ends there and the failure is surfaced.
C4_EveryFailureSurfaced ==
    \A p \in Callers :
        inv[p].layer = "tool" =>
            /\ inv[p].nreq <= 1
            /\ inv[p].ncalls <= 1
            /\ FailedRequest(inv[p]) => inv[p].pc = "done" /\ Surfaced(inv[p])

\* C4: a tool invocation sends at most one request, and when that request
\* fails the invocation ends there with the failure surfaced, except that
\* get_focus_session_status answers a 404 with "no session".
C4_OneRequestFailureSurfaced ==
    \A p \in Callers :
        inv[p].layer = "tool" =>
            /\ inv[p].nreq <= 1
            /\ inv[p].ncalls <= 1
            /\ FailedRequest(inv[p]) =>
                    /\ inv[p].pc = "done"
                    /\ Surfaced(inv[p]) \/ NoSessionAnswer(inv[p])

\* A tool's only request was answered 500 and the tool raised.
C4_Witness ==
    /\ inv[1].layer = "tool"
    /\ inv[1].op = "post_highlight"
    /\ inv[1].nreq = 1
    /\ FailedRequest(inv[1])
    /\ Get(inv[1].outcome).kind = "response"
    /\ Get(inv[1].outcome).status = 500
    /\ Raised(inv[1].result)

C6_TableOperationsRegistered ==
    \A p \in Callers :
        (inv[p].op \in SpecOperations /\ inv[p].pc = "done")
        => /\ inv[p].layer = "tool"
           /\ inv[p].op = "dismiss_alert" =>
                /\ inv[p].m = "dismiss_alert"
                /\ inv[p].margs = inv[p].args
                /\ Returned(inv[p].result)
                /\ inv[p].result = inv[p].cres

\* The integer a duration argument stands for (None: not coercible).
DurationValue(d) == IF d.t = "int" THEN Some(d.int) ELSE ParseInt(d.str)

\* The durations the specification lets through: omitted, -1, or a strictly
\* positive multiple of 5.
AcceptableDuration(d) ==
    \/ d = None
    \/ /\ DurationValue(Get(d)) # None
       /\ \/ Get(DurationValue(Get(d))) = -1
          \/ Get(DurationValue(Get(d))) > 0 /\ Get(DurationValue(Get(d))) % 5 = 0

\* The duration argument as the failure message shows it.
DurationText(d) ==
    IF DurationValue(d) = None THEN Text(d.str) ELSE IntToStr(Get(DurationValue(d)))

\* C7: start_focus_session delegates to the client exactly when the duration
\* is omitted, -1, or a strictly positive multiple of 5 (as an integer or a
\* string int() accepts); otherwise it raises with a message that names the
\* rejected value, and the client's start_focus_session is not called.
C7_DurationValidated ==
    \A p \in Callers :
        (inv[p].layer = "tool" /\ inv[p].op = "start_focus_session")
        => IF AcceptableDuration(inv[p].args.duration)
           THEN /\ inv[p].ncalls = 1
                /\ inv[p].m = "start_focus_session"
                /\ inv[p].margs.duration
                     = (IF inv[p].args.duration = None THEN None
                        ELSE DurationValue(Get(inv[p].args.duration)))
           ELSE /\ inv[p].ncalls = 0
                /\ inv[p].nreq = 0
                /\ inv[p].pc = "done"
                /\ Raised(inv[p].result)
                /\ inv[p].result.exc.type = "RuntimeError"
                /\ Len(inv[p].result.exc.msg) = 3
                /\ inv[p].result.exc.msg[1] = "Failed to start focus session: "
                /\ inv[p].result.exc.msg[3] = DurationText(Get(inv[p].args.duration))

\* The string "-5", a negative multiple of 5, has been rejected.
C7_Witness ==
    /\ inv[1].layer = "tool"
    /\ inv[1].op = "start_focus_session"
    /\ inv[1].args.duration = Some(StrArg(<<"-", "5">>))
    /\ inv[1].ncalls = 0
    /\ Raised(inv[1].result)

\* The legal values of the parameter get_analytic_data found illegal.
LegalValues(a) ==
    IF a.perspective \notin {"rank", "interval"} THEN {"rank", "interval"}
    ELSE IF a.resolution_time \notin {"minute", "hour", "day", "week", "month"}
    THEN {"minute", "hour", "day", "week", "month"}
    ELSE {"category", "activity", "productivity", "document", "overview"}

\* C8: get_analytic_data rejects, with no client call and no request, every
\* invocation whose perspective or resolution_time is illegal or whose
\* restrict_kind is given and illegal, by a RuntimeError whose message lists
\* the legal values; every other invocation reaches the client exactly once.
C8_IllegalValuesRejected ==
    \A p \in Callers :
        (inv[p].layer = "tool" /\ inv[p].op = "get_analytic_data")
        => LET a == inv[p].args
           IN  IF \/ a.perspective \notin {"rank", "interval"}
                  \/ a.resolution_time \notin {"minute", "hour", "day", "week", "month"}
                  \/ /\ a.restrict_kind # None
                     /\ Get(a.restrict_kind) \notin
                            {"category", "activity", "productivity", "document", "overview"}
               THEN /\ inv[p].ncalls = 0
                    /\ inv[p].nreq = 0
                    /\ inv[p].pc = "done"
                    /\ Raised(inv[p].result)
                    /\ inv[p].result.exc.type = "RuntimeError"
                    /\ \A v \in LegalValues(a) :
                          \E i \in DOMAIN inv[p].result.exc.msg :
                              inv[p].result.exc.msg[i] = v
               ELSE /\ inv[p].ncalls = 1
                    /\ inv[p].m = "get_analytic_data"

\* C9: for every tool but health_check, an exception the client raised
\* reaches the caller as a RuntimeError whose message is the tool's own
\* prefix followed by the exception's message.
C9_ClientFailuresPrefixed ==
    \A p \in Callers :
        (/\ inv[p].layer = "tool"
         /\ inv[p].op # "health_check"
         /\ inv[p].pc = "done"
         /\ Raised(inv[p].cres))
        => /\ Raised(inv[p].result)
           /\ inv[p].result.exc.type = "RuntimeError"
           /\ inv[p].result.exc.msg = <<FailurePrefix(inv[p].op)>> \o inv[p].cres.exc.msg

\* C10: the health_check tool never raises; whatever the remote did, it
\* returns a structure with a boolean healthy and a timestamp.
C10_HealthCheckNeverRaises ==
    \A p \in Callers :
        (inv[p].layer = "tool" /\ inv[p].op = "health_check" /\ inv[p].pc = "done")
        => /\ Returned(inv[p].result)
           /\ IsDict(inv[p].result.value)
           /\ {"healthy", "timestamp"} \subseteq DOMAIN inv[p].result.value.fields
           /\ inv[p].result.value.fields.healthy \in BOOLEAN

\* health_check has answered healthy = false after a connection failure.
C10_Witness ==
    /\ inv[1].layer = "tool"
    /\ inv[1].op = "health_check"
    /\ inv[1].outcome = Some(RequestError("Connection refused"))
    /\ Returned(inv[1].result)
    /\ inv[1].result.value.fields.healthy = FALSE

\* C11: when the request behind the health_check tool fails (a status that
\* is not 2xx, or a transport failure), the structure it returns has
\* healthy = false and an error field with the failure's message.
C11_FailureCarriesError ==
    \A p \in Callers :
        (/\ inv[p].layer = "tool"
         /\ inv[p].op = "health_check"
         /\ inv[p].pc = "done"
         /\ FailedRequest(inv[p]))
        => /\ Returned(inv[p].result)
           /\ inv[p].result.value.fields.healthy = FALSE
           /\ "error" \in DOMAIN inv[p].result.value.fields
           /\ inv[p].result.value.fields.error
                = MakeRequestResult(Get(inv[p].outcome)).exc.msg

\* The three feed tools and the name each files a list under.
FeedTools == {"get_daily_summary_feed", "get_alerts_feed", "get_highlights_feed"}

EntityName(op) ==
    CASE op = "get_daily_summary_feed" -> "summaries"
      [] op = "get_alerts_feed" -> "alerts"
      [] op = "get_highlights_feed" -> "highlights"

\* The filter of frame f's caller, as the wrapped answer `fields` echoes it.
FilterEchoed(f, fields) ==
    IF f.op = "get_alerts_feed"
    THEN /\ "operation" \in DOMAIN fields
         /\ fields["operation"] = f.args.op
    ELSE /\ "date_range" \in DOMAIN fields
         /\ fields["date_range"] = JDict([begin |-> f.args.restrict_begin,
                                          end |-> f.args.restrict_end])

C12_WitnessUnchanged ==
    /\ inv[1].layer = "tool"
    /\ inv[1].op = "get_alerts_feed"
    /\ inv[1].pc = "done"
    /\ Returned(inv[1].cres)
    /\ IsDict(inv[1].cres.value)
    /\ inv[1].result = Ret(inv[1].cres.value)

NoShutdownYet == \A h \in DOMAIN handles : handles[h].closes = 0

\* Caller p's step begins a tool invocation.
InvocationBegins(p) == inv[p].pc = "idle" /\ inv'[p].layer = "tool"

\* C14: until shutdown, however many tool invocations interleave, one
\* connection handle is constructed: none before the first invocation, the
\* first invocation constructs it, and every later or concurrent invocation
\* is given that same handle.
C14_OneSharedHandle ==
    [][NoShutdownYet'
        => /\ Len(handles') <= 1
           /\ Len(handles') > Len(handles) => \E p \in Callers : InvocationBegins(p)
           /\ \A p \in Callers :
                InvocationBegins(p)
                => /\ Len(handles') = 1
                   /\ client_instance' = Some(1)
                   /\ inv'[p].handle = Some(1)]_vars

\* Two invocations are in flight at once on the one handle.
C14_Witness ==
    /\ NoShutdownYet
    /\ Len(handles) = 1
    /\ inv[1].layer = "tool" /\ inv[1].pc = "awaiting" /\ inv[1].handle = Some(1)
    /\ inv[2].layer = "tool" /\ inv[2].pc = "awaiting" /\ inv[2].handle = Some(1)

\* C15: however cleanup calls follow or interleave, close is called at most
\* once on a handle, never on one already closed, and a cleanup that finds no
\* handle closes nothing.
C15_ClosedAtMostOnce ==
    /\ \A h \in DOMAIN handles : handles[h].closes <= 1
    /\ \A p \in Callers :
        (inv[p].layer = "cleanup" /\ inv[p].handle = None) => inv[p].pc = "done"

\* C16: however tool invocations and cleanup interleave, an invocation is
\* given a handle that is open (the shared one, or a fresh one when cleanup
\* has finished), and no request goes out on a handle cleanup has closed.
C16_InvocationHandleOpen ==
    [][\A p \in Callers :
        InvocationBegins(p)
        => /\ inv'[p].handle # None
           /\ ~handles'[Get(inv'[p].handle)].closed]_vars

\* No request is in flight that was issued on a closed handle: a step that
\* sends a request does so on a handle that is open.
C16_NoRequestOnClosedHandle ==
    [][\A p \in Callers :
        (inv[p].pc = "idle" /\ inv'[p].pc = "awaiting")
        => ~handles'[Get(inv'[p].handle)].closed]_vars

\* Frame f is a completed call of the client's get_focus_session_status
\* whose request was answered.
FocusStatusAnswered(f) ==
    f.m = "get_focus_session_status" /\ f.pc = "done" /\ f.outcome # None

\* r, the result of _make_request, is a non-empty list.
NonEmptyList(r) == Returned(r) /\ IsList(r.value) /\ Len(r.value.items) > 0

\* r is the typed error of a response with status 404.
NotFound(r) ==
    Raised(r) /\ r.exc.type = "RescueTimeAPIError" /\ r.exc.status_code = Some(404)

\* res reports a session: active, the list's first element, its length.
ActiveWith(res, items) ==
    /\ Returned(res)
    /\ res.value.fields.active = TRUE
    /\ res.value.fields.latest_session = Some(items[1])
    /\ res.value.fields.total_sessions = Len(items)

\* res reports no session and is not a raise.
Inactive(res) ==
    /\ Returned(res)
    /\ res.value.fields.active = FALSE
    /\ res.value.fields.latest_session = None

\* The remote's answer o is a success (2xx) response.
SuccessResponse(o) == o.kind = "response" /\ o.status \in 200..299

\* The claim as stated, for the answer o, what _make_request made of it (r)
\* and what get_focus_session_status ended with (res).
FocusStatusAsStated(o, r, res) ==
    IF NonEmptyList(r) THEN ActiveWith(res, r.value.items)
    ELSE IF SuccessResponse(o) \/ NotFound(r) THEN Inactive(res)
    ELSE res = r

\* The same with the success case narrowed to the bodies _make_request
\* decodes.
FocusStatusAsDecoded(o, r, res) ==
    IF NonEmptyList(r) THEN ActiveWith(res, r.value.items)
    ELSE IF Returned(r) \/ NotFound(r) THEN Inactive(res)
    ELSE res = r

C17_WitnessActive ==
    /\ FocusStatusAnswered(inv[1])
    /\ NonEmptyList(MakeRequestResult(Get(inv[1].outcome)))
    /\ inv[1].cres.value.fields.total_sessions = 2

\* Frame f is a completed get_productivity_score whose request was answered
\* with rows of some time in total.
ScoreComputed(f) ==
    /\ f.layer = "tool" /\ f.op = "get_productivity_score" /\ f.pc = "done"
    /\ f.outcome # None
    /\ Get(f.outcome).json # None
    /\ HasKey(Get(Get(f.outcome).json), "rows")
    /\ TotalSeconds(Get(Get(f.outcome).json).fields["rows"]) > 0
    /\ Returned(f.result)

RowsOf(f) == Get(Get(f.outcome).json).fields["rows"]

\* The integer part of 100 * (1.0 t(2) + 0.75 t(1) + 0.5 t(0) + 0.25 t(-1)) / T,
\* in exact arithmetic.
ExactPulse(rows) ==
    (100 * (4 * SumSeconds(rows, {2}) + 3 * SumSeconds(rows, {1})
            + 2 * SumSeconds(rows, {0}) + SumSeconds(rows, {0 - 1})))
        \div (4 * TotalSeconds(rows))

\* C18: for rows of levels -2..2 the pulse get_productivity_score returns is
\* the integer part of the weighted share of the time, and the productive and
\* distracting hours are the seconds at levels 1, 2 and at -1, -2 over 3600.
C18_PulseIsIntegerPart ==
    \A p \in Callers :
        ScoreComputed(inv[p])
        => /\ inv[p].result.value.fields.productivity_pulse = ExactPulse(RowsOf(inv[p]))
           /\ inv[p].result.value.fields.time_breakdown.fields.productive_hours
                = Rounded(SumSeconds(RowsOf(inv[p]), {1, 2}), 3600, 2)
           /\ inv[p].result.value.fields.time_breakdown.fields.distracting_hours
                = Rounded(SumSeconds(RowsOf(inv[p]), {0 - 1, 0 - 2}), 3600, 2)

\* The label follows from the pulse by the four ranges.
LabelMatchesPulse(label, pulse) ==
    /\ label = "Excellent" <=> pulse >= 75
    /\ label = "Good" <=> (60 <= pulse /\ pulse < 75)
    /\ label = "Fair" <=> (40 <= pulse /\ pulse < 60)
    /\ label = "Needs Improvement" <=> pulse < 40

\* C19: the label get_productivity_score returns with a pulse computed from
\* rows depends on that pulse alone: Excellent from 75, Good from 60 to 74,
\* Fair from 40 to 59, Needs Improvement below 40.
C19_LabelFromPulse ==
    \A p \in Callers :
        ScoreComputed(inv[p])
        => LabelMatchesPulse(inv[p].result.value.fields.level_description,
                             inv[p].result.value.fields.productivity_pulse)

\* Caller 1 has been answered with this pulse and this label.
Scored(pulse, label) ==
    /\ ScoreComputed(inv[1])
    /\ inv[1].result.value.fields.productivity_pulse = pulse
    /\ inv[1].result.value.fields.level_description = label

\* A pulse on a threshold has been labelled.
C19_Witness == Scored(75, "Excellent")

C19_WitnessGood == Scored(60, "Good")
C19_WitnessGoodTop == Scored(74, "Good")
C19_WitnessFair == Scored(40, "Fair")
C19_WitnessFairTop == Scored(59, "Fair")
C19_WitnessNeedsImprovement == Scored(39, "Needs Improvement")

\* Frame f is a completed get_top_distractions with a limit of zero or more
\* whose request was answered with rows.
DistractionsListed(f) ==
    /\ f.layer = "tool" /\ f.op = "get_top_distractions" /\ f.pc = "done"
    /\ f.args.limit >= 0
    /\ f.outcome # None
    /\ Get(f.outcome).json # None
    /\ HasKey(Get(Get(f.outcome).json), "rows")
    /\ Returned(f.result)

\* The rows of negative productivity level, by position.
DistractingRows(rows) == {i \in DOMAIN rows : rows[i][6] < 0}

Min(a, b) == IF a < b THEN a ELSE b

\* acts, the activities returned for rows and limit, are what the claim says:
\* min(limit, d) of them, each one a different distracting row, none spent
\* less time on than a distracting row left out, in non-increasing order of
\* time spent.
TopOfDistracting(rows, limit, acts) ==
    /\ Len(acts) = Min(limit, Cardinality(DistractingRows(rows)))
    /\ \A k \in DOMAIN acts :
        /\ acts[k].fields.rank \in DistractingRows(rows)
        /\ acts[k].fields.activity = rows[acts[k].fields.rank][4]
        /\ acts[k].fields.time_spent_seconds = rows[acts[k].fields.rank][2]
        /\ acts[k].fields.productivity_level = rows[acts[k].fields.rank][6]
        /\ acts[k].fields.productivity_level < 0
    /\ \A k, l \in DOMAIN acts : k # l => acts[k].fields.rank # acts[l].fields.rank
    /\ \A k \in DOMAIN acts : \A i \in DistractingRows(rows) :
        (\A l \in DOMAIN acts : acts[l].fields.rank # i)
        => rows[i][2] <= acts[k].fields.time_spent_seconds
    /\ \A k \in 1..(Len(acts) - 1) :
        acts[k].fields.time_spent_seconds >= acts[k + 1].fields.time_spent_seconds

\* C20: for any rows and any limit >= 0, get_top_distractions returns
\* min(limit, d) activities, d being the number of rows of negative level:
\* those with the most time among them, in non-increasing order of time, and
\* never a row of level 0 or more.
C20_TopDistractions ==
    \A p \in Callers :
        DistractionsListed(inv[p])
        => TopOfDistracting(RowsOf(inv[p]), inv[p].args.limit,
                            inv[p].result.value.fields.activities)

\* limit = 1 with two distracting rows, the second with more time: only the
\* second has been returned.
C20_Witness ==
    /\ DistractionsListed(inv[1])
    /\ inv[1].args.limit = 1
    /\ Len(RowsOf(inv[1])) = 2
    /\ DistractingRows(RowsOf(inv[1])) = {1, 2}
    /\ RowsOf(inv[1])[1][2] < RowsOf(inv[1])[2][2]
    /\ Len(inv[1].result.value.fields.activities) = 1
    /\ inv[1].result.value.fields.activities[1].fields.rank = 2

\* A limit above the number of distracting rows: the one distracting row has
\* been returned and the other row left out.
C20_WitnessAll ==
    /\ DistractionsListed(inv[1])
    /\ inv[1].args.limit = 2
    /\ Len(RowsOf(inv[1])) = 2
    /\ DistractingRows(RowsOf(inv[1])) = {2}
    /\ Len(inv[1].result.value.fields.activities) = 1

\* The day before each day of the clock, as YYYY-MM-DD.
YesterdayOf(now) ==
    CASE now = Date(2024, 3, 1) -> "2024-02-29"
      [] now = Date(2025, 1, 1) -> "2024-12-31"
      [] now = Date(2025, 10, 12) -> "2025-10-11"

\* Frame f is a get_latest_daily_summary that has got as far as its request.
LatestSummaryCalled(f) ==
    f.layer = "tool" /\ f.op = "get_latest_daily_summary" /\ f.pc \in {"awaiting", "done"}

\* req is one GET of the daily summary feed for the day `day` alone.
YesterdayRequest(req, day) ==
    /\ req # None
    /\ Get(req).method = "GET"
    /\ Get(req).url = BASE_URL \o "/daily_summary_feed"
    /\ "restrict_begin" \in DOMAIN Get(Get(req).query)
    /\ "restrict_end" \in DOMAIN Get(Get(req).query)
    /\ Get(Get(req).query)["restrict_begin"] = day
    /\ Get(Get(req).query)["restrict_end"] = day

\* res is the flattened view of the record `first`.
FlattenedView(res, first, day) ==
    /\ Returned(res)
    /\ res.value.fields.summary = Some(first)
    /\ res.value.fields.date = DictGet(first, "date", day)
    /\ res.value.fields.formatted_summary.fields.productivity_score
            = DictGet(first, "productivity_pulse", 0)
    /\ res.value.fields.formatted_summary.fields.total_hours
            = DictGet(first, "total_hours", 0)

\* res is the explicit no-data structure for `day`.
NoDataView(res, day) ==
    /\ Returned(res)
    /\ res.value.fields.summary = None
    /\ res.value.fields.date = day
    /\ res.value.fields.message = "No daily summaries available"

\* What the tool made (res) of what the client returned (v).
LatestSummaryView(v, res, day) ==
    IF IsList(v) /\ Len(v.items) > 0
    THEN IsDict(v.items[1]) => FlattenedView(res, v.items[1], day)
    ELSE IF IsList(v) \/ ~HasKey(v, "summaries") THEN NoDataView(res, day)
    ELSE TRUE

C21_WitnessFlattened ==
    /\ LatestSummaryCalled(inv[1])
    /\ inv[1].pc = "done"
    /\ Returned(inv[1].cres)
    /\ IsList(inv[1].cres.value)
    /\ Len(inv[1].cres.value.items) = 2
    /\ Returned(inv[1].result)
    /\ inv[1].result.value.fields.date = "2025-10-11"
    /\ inv[1].result.value.fields.formatted_summary.fields.productivity_score = 70

\* YYYY-MM-DD of each date object callers pass.
YearMonthDay(d) ==
    CASE d = Date(2024, 3, 5) -> "2024-03-05"
      [] d = Date(999, 12, 31) -> "0999-12-31"

\* Frame f is a call of a client method that was given values for date
\* fields and has sent its request.
DatedRequestSent(f) ==
    /\ f.layer = "client"
    /\ "given" \in DOMAIN f.args
    /\ f.req # None

\* C22: for every date object given for a date field, the outgoing
\* parameters carry the string YYYY-MM-DD of that date: four digits of year,
\* two of month, two of day.
C22_DatesSentAsYearMonthDay ==
    \A p \in Callers :
        DatedRequestSent(inv[p])
        => \A k \in DOMAIN inv[p].args.given :
            (inv[p].args.given[k] # None /\ Get(inv[p].args.given[k]).t = "date")
            => /\ k \in DOMAIN Get(Carried(Get(inv[p].req)))
               /\ Get(Carried(Get(inv[p].req)))[k]
                    = YearMonthDay(Get(inv[p].args.given[k]).date)

\* Frame f is a completed call of the request primitive that was answered
\* with a 2xx response.
PrimitiveSucceeded(f) ==
    /\ f.layer = "client" /\ f.m = "_make_request" /\ f.pc = "done"
    /\ f.outcome # None
    /\ SuccessResponse(Get(f.outcome))

\* The content type response o declares, in lower case ("" when it declares
\* none), and whether it names JSON.
DeclaredType(o) == IF o.content_type = None THEN "" ELSE Lower(Get(o.content_type))
DeclaresJson(o) ==
    o.content_type # None
    /\ Get(o.content_type) \in {"application/json", "Application/JSON; charset=UTF-8"}

\* C23: on a 2xx response the request primitive returns the parsed JSON
\* structure exactly when the declared content type contains
\* application/json, and for every other declared type, a missing one
\* included, the object {response: raw text, content_type: declared type}.
C23_JsonParsedElseEnvelope ==
    \A p \in Callers :
        PrimitiveSucceeded(inv[p])
        => /\ Returned(inv[p].result)
           /\ IF DeclaresJson(Get(inv[p].outcome))
              THEN /\ Get(inv[p].outcome).json # None
                   /\ inv[p].result.value = Get(Get(inv[p].outcome).json)
              ELSE /\ IsDict(inv[p].result.value)
                   /\ DOMAIN inv[p].result.value.fields = {"response", "content_type"}
                   /\ inv[p].result.value.fields["response"] = Get(inv[p].outcome).text
                   /\ inv[p].result.value.fields["content_type"]
                        = DeclaredType(Get(inv[p].outcome))

\* res is the envelope with these status fields and this message.
IsEnvelope(res, status, message) ==
    /\ Returned(res)
    /\ IsDict(res.value)
    /\ "status" \in DOMAIN res.value.fields
    /\ res.value.fields["status"] = status
    /\ "message" \in DOMAIN res.value.fields
    /\ res.value.fields["message"] = message

\* What an action method returns (res) for the 2xx answer o, as the claims
\* state it: the envelope with the raw text for a body not declared as JSON,
\* the envelope with the canned message for an empty structure, and a
\* non-empty JSON structure unchanged.
EnvelopeOrUnchanged(o, res, status, canned) ==
    IF ~DeclaresJson(o) THEN IsEnvelope(res, status, o.text)
    ELSE IF ~Truthy(Get(o.json)) THEN IsEnvelope(res, status, canned)
    ELSE res = Ret(Get(o.json))

\* Frame f is a start_focus_session of the client that has sent its request.
StartFocusSent(f) ==
    f.layer = "client" /\ f.m = "start_focus_session" /\ f.req # None

\* Frame f was answered with a 2xx response the primitive could return.
AnsweredWithBody(f) ==
    /\ f.pc = "done"
    /\ SuccessResponse(Get(f.outcome))
    /\ DeclaresJson(Get(f.outcome)) => Get(f.outcome).json # None

\* C24: the client's start_focus_session sends the given duration, or 30
\* when none is given, in exactly one POST; a text body or an empty structure
\* is answered with the envelope {status: started, duration: the one sent,
\* message: the raw text or a canned message}, and a non-empty JSON structure
\* is returned unchanged.
C24_StartFocusEnvelope ==
    \A p \in Callers :
        StartFocusSent(inv[p])
        => /\ inv[p].nreq = 1
           /\ Get(inv[p].req).method = "POST"
           /\ Get(inv[p].req).url = BASE_URL \o "/start_focustime"
           /\ Get(Get(inv[p].req).form)["duration"]
                = (IF inv[p].margs.duration = None THEN 30 ELSE Get(inv[p].margs.duration))
           /\ AnsweredWithBody(inv[p])
                => /\ EnvelopeOrUnchanged(Get(inv[p].outcome), inv[p].result, "started",
                                          "Focus session started successfully")
                   /\ HasKey(inv[p].result.value, "message")
                        => inv[p].result.value.fields["duration"]
                                = Get(Get(inv[p].req).form)["duration"]

\* Frame f is a get_alerts_feed of the client that has sent its request.
AlertsFeedSent(f) ==
    f.layer = "client" /\ f.m = "get_alerts_feed" /\ f.req # None

\* The op a get_alerts_feed call asks for: the request's, "list" without one.
AskedOp(f) == IF f.margs.request = None THEN "list" ELSE Get(Get(f.margs.request).op)

\* C25: the client's get_alerts_feed sends one POST carrying op exactly when
\* op is "dismiss", and one GET carrying op otherwise ("list" when no request
\* is given); in dismiss mode a text body or an empty structure is answered
\* with the envelope {status: dismissed, operation: dismiss, message: the raw
\* text or a canned message}, and a non-empty JSON structure is returned
\* unchanged.
C25_AlertsDismissEnvelope ==
    \A p \in Callers :
        AlertsFeedSent(inv[p])
        => /\ inv[p].nreq = 1
           /\ Get(inv[p].req).url = BASE_URL \o "/alerts_feed"
           /\ Get(inv[p].req).method = "POST" <=> AskedOp(inv[p]) = "dismiss"
           /\ Get(inv[p].req).method = "GET" <=> AskedOp(inv[p]) # "dismiss"
           /\ Get(inv[p].req).method = "POST"
                => Get(Get(inv[p].req).form)["op"] = "dismiss"
           /\ Get(inv[p].req).method = "GET"
                => Get(Get(inv[p].req).query)["op"] = AskedOp(inv[p])
           /\ (AskedOp(inv[p]) = "dismiss" /\ AnsweredWithBody(inv[p]))
                => /\ EnvelopeOrUnchanged(Get(inv[p].outcome), inv[p].result, "dismissed",
                                          "Alert dismissed successfully")
                   /\ HasKey(inv[p].result.value, "message")
                        => inv[p].result.value.fields["operation"] = "dismiss"

\* Frame f is a health_check of the client.
HealthCheckCalled(f) == f.layer = "client" /\ f.m = "health_check"

\* The one call health_check made returned: its request was answered with a
\* 2xx response whose body the primitive could return.
HealthCallReturned(f) == f.outcome # None /\ AnsweredWithBody(f)

\* C26: the client's health_check makes exactly one call, a read of the daily
\* summary feed with no date restriction, and ends with true when that call
\* returned and with false when it raised any error; it never raises.
C26_HealthCheckIsBoolean ==
    \A p \in Callers :
        HealthCheckCalled(inv[p])
        => /\ inv[p].ncalls = 1
           /\ inv[p].nreq <= 1
           /\ inv[p].req # None
                => /\ Get(inv[p].req).method = "GET"
                   /\ Get(inv[p].req).url = BASE_URL \o "/daily_summary_feed"
                   /\ DOMAIN Get(Get(inv[p].req).query) = {"key", "format"}
           /\ inv[p].pc = "done"
                => /\ Returned(inv[p].result)
                   /\ inv[p].result.value = HealthCallReturned(inv[p])

\* A health check whose call was refused with 401 ended with false.
C26_Witness ==
    /\ HealthCheckCalled(inv[1])
    /\ inv[1].pc = "done"
    /\ inv[1].outcome # None
    /\ Get(inv[1].outcome).kind = "response"
    /\ Get(inv[1].outcome).status = 401
    /\ inv[1].result = Ret(FALSE)

\* A health check whose call returned ended with true.
C26_WitnessHealthy ==
    /\ HealthCheckCalled(inv[1])
    /\ inv[1].pc = "done"
    /\ HealthCallReturned(inv[1])
    /\ inv[1].result = Ret(TRUE)

\* A health check on a closed client ended with false without any request.
C26_WitnessClosed ==
    /\ HealthCheckCalled(inv[1])
    /\ inv[1].pc = "done"
    /\ inv[1].nreq = 0
    /\ inv[1].result = Ret(FALSE)

\* Frame f is a completed get_productivity_score.
ScoreReturned(f) ==
    /\ f.layer = "tool" /\ f.op = "get_productivity_score" /\ f.pc = "done"
    /\ Returned(f.result)

\* C27: whatever rows of non-negative seconds came back, at levels -2..2 or
\* at any other level (those count toward the total and toward no bucket),
\* the productivity_pulse get_productivity_score returns is an integer in
\* 0..100.
C27_PulseInRange ==
    \A p \in Callers :
        ScoreReturned(inv[p])
        => inv[p].result.value.fields.productivity_pulse \in 0..100

\* A score has been computed from a row at a level outside -2..2 and a row at
\* level 2: the first row counts toward the total only.
C27_Witness ==
    /\ ScoreComputed(inv[1])
    /\ Len(RowsOf(inv[1])) = 2
    /\ RowsOf(inv[1])[1][6] = 3 /\ RowsOf(inv[1])[1][2] = 4
    /\ RowsOf(inv[1])[2][6] = 2 /\ RowsOf(inv[1])[2][2] = 4
    /\ inv[1].result.value.fields.productivity_pulse = 50

\* A score of 100 has been computed: all the time was at level 2.
C27_WitnessFull ==
    /\ ScoreComputed(inv[1])
    /\ inv[1].result.value.fields.productivity_pulse = 100

\* Caller p's step is a step of a tool invocation: it begins one, or its
\* invocation goes on or ends.
ToolStep(p) == InvocationBegins(p) \/ (inv[p].layer = "tool" /\ inv'[p] # inv[p])

\* The step writes nothing shared but the handle reference, and that only by
\* lazy creation: a beginning invocation that finds no handle constructs one,
\* open, and sets the reference to it; no other step of an invocation changes
\* the reference, a handle, the server or another caller's invocation.
OnlyHandleWritten(p) ==
    /\ server' = server
    /\ \A q \in Callers \ {p} : inv'[q] = inv[q]
    /\ \A h \in DOMAIN handles : h \in DOMAIN handles' /\ handles'[h] = handles[h]
    /\ IF InvocationBegins(p) /\ client_instance = None
       THEN /\ Len(handles') = Len(handles) + 1
            /\ client_instance' = Some(Len(handles'))
            /\ ~handles'[Len(handles')].closed
       ELSE /\ client_instance' = client_instance
            /\ handles' = handles

\* The result of frame f without the wall-clock reading health_check puts in.
TimelessResult(f) ==
    IF Returned(f.result) /\ IsDict(f.result.value)
       /\ "timestamp" \in DOMAIN f.result.value.fields
    THEN [k \in DOMAIN f.result.value.fields \ {"timestamp"} |-> f.result.value.fields[k]]
    ELSE f.result

\* Frames f and g are completed invocations of one tool with the same
\* arguments, the same day read at the start, and the same answer (or none)
\* to their requests.
SameCallSameAnswer(f, g) ==
    /\ f.layer = "tool" /\ f.pc = "done"
    /\ g.layer = "tool" /\ g.pc = "done"
    /\ f.op = g.op /\ f.args = g.args /\ f.started = g.started
    /\ f.outcome = g.outcome

\* Whatever else ran in between, two such invocations have the same result.
ResultsIndependent ==
    \A p \in Callers, q \in Callers :
        SameCallSameAnswer(inv[p], inv[q])
        => TimelessResult(inv[p]) = TimelessResult(inv[q])

C28_WitnessSameResult ==
    /\ inv[1].op = "get_focus_session_status" /\ inv[2].op = "get_focus_session_status"
    /\ SameCallSameAnswer(inv[1], inv[2])
    /\ inv[1].outcome # None
    /\ Returned(inv[1].result)
    /\ inv[1].result = inv[2].result

\* Frame f is a completed get_top_distractions that returned a list.
DistractionsReturned(f) ==
    /\ f.layer = "tool" /\ f.op = "get_top_distractions" /\ f.pc = "done"
    /\ Returned(f.result)

\* The time spent on the first n of the activities acts, in seconds.
RECURSIVE SecondsOfFirst(_, _)
SecondsOfFirst(acts, n) ==
    IF n = 0 THEN 0
    ELSE acts[n].fields.time_spent_seconds + SecondsOfFirst(acts, n - 1)

\* C29: the totals get_top_distractions returns describe the returned list:
\* total_activities is the number of activities returned, and the total
\* distraction time, in minutes and in hours, is their time spent summed, not
\* that of all the distracting rows of the day.
C29_TotalsOfReturnedList ==
    \A p \in Callers :
        DistractionsReturned(inv[p])
        => LET r == inv[p].result.value.fields
               seconds == SecondsOfFirst(r.activities, Len(r.activities))
           IN  /\ r.summary.fields.total_activities = Len(r.activities)
               /\ r.summary.fields.total_distraction_time_minutes = Rounded(seconds, 60, 1)
               /\ r.summary.fields.total_distraction_time_hours = Rounded(seconds, 3600, 2)

\* limit = 1 with distracting rows of 4 and 21 seconds: one activity returned,
\* and the totals are those of its 21 seconds, not of the day's 25.
C29_Witness ==
    /\ DistractionsReturned(inv[1])
    /\ inv[1].args.limit = 1
    /\ inv[1].outcome # None
    /\ Get(inv[1].outcome).json # None
    /\ HasKey(Get(Get(inv[1].outcome).json), "rows")
    /\ Len(RowsOf(inv[1])) = 2
    /\ RowsOf(inv[1])[1][2] = 4 /\ RowsOf(inv[1])[1][6] < 0
    /\ RowsOf(inv[1])[2][2] = 21 /\ RowsOf(inv[1])[2][6] < 0
    /\ inv[1].result.value.fields.summary.fields.total_activities = 1
    /\ inv[1].result.value.fields.summary.fields.total_distraction_time_minutes
            = Rounded(21, 60, 1)

\* Frame f is a completed get_productivity_score whose client call returned.
ScoreAnswered(f) ==
    /\ f.layer = "tool" /\ f.op = "get_productivity_score" /\ f.pc = "done"
    /\ Returned(f.cres)

\* What the client returned to frame f has a rows member, each row of six
\* fields, with no time in total.
RowsOfNoTime(f) ==
    /\ HasKey(f.cres.value, "rows")
    /\ \A i \in DOMAIN f.cres.value.fields["rows"] : Len(f.cres.value.fields["rows"][i]) >= 6
    /\ TotalSeconds(f.cres.value.fields["rows"]) = 0

\* round(0, 1): the percentage of no time.
IsZeroPercent(x) == x.num = 0 /\ x.ndigits = 1

\* C30: get_productivity_score never divides by zero.  For a rows member
\* with no time in total (no rows, or rows of zero seconds only) it returns
\* pulse 0, the three percentages 0 and the label "Needs Improvement"; it
\* returns the label "No Data" exactly when what came back has no rows member.
C30_NoTimeIsNotNoData ==
    \A p \in Callers :
        ScoreAnswered(inv[p])
        => /\ RowsOfNoTime(inv[p])
                => /\ Returned(inv[p].result)
                   /\ inv[p].result.value.fields.productivity_pulse = 0
                   /\ inv[p].result.value.fields.level_description = "Needs Improvement"
                   /\ \A k \in {"productive", "distracting", "neutral"} :
                        IsZeroPercent(inv[p].result.value.fields.percentages.fields[k])
           /\ Returned(inv[p].result)
                => (inv[p].result.value.fields.level_description = "No Data"
                        <=> ~HasKey(inv[p].cres.value, "rows"))

\* Two rows of zero seconds have been scored: pulse 0, "Needs Improvement".
C30_Witness ==
    /\ ScoreAnswered(inv[1])
    /\ RowsOfNoTime(inv[1])
    /\ Len(inv[1].cres.value.fields["rows"]) = 2
    /\ inv[1].result.value.fields.productivity_pulse = 0
    /\ inv[1].result.value.fields.level_description = "Needs Improvement"

\* An empty list of rows has been scored the same way.
C30_WitnessEmptyRows ==
    /\ ScoreAnswered(inv[1])
    /\ RowsOfNoTime(inv[1])
    /\ inv[1].cres.value.fields["rows"] = << >>
    /\ inv[1].result.value.fields.level_description = "Needs Improvement"

\* An answer without a rows member has been labelled "No Data".
C30_WitnessNoData ==
    /\ ScoreAnswered(inv[1])
    /\ ~HasKey(inv[1].cres.value, "rows")
    /\ Returned(inv[1].result)
    /\ inv[1].result.value.fields.level_description = "No Data"

====
